---------------------------- MODULE Spec2Model ----------------------------
(***************************************************************************)
(* Model of pro-stock-mcp/index.js: the instrument code normalizer, the    *)
(* positional record decoders of the CallTool handler and the indicator    *)
(* functions.                                                              *)
(*                                                                         *)
(* A JavaScript string is a sequence of one-character strings, so that     *)
(* startsWith, split and parseInt are computed on the text itself.  The    *)
(* server handles one request at a time: pc is "idle" between requests and *)
(* "done" when a handler has produced its response.                        *)
(***************************************************************************)
EXTENDS Integers, Sequences, FiniteSets, TLC

VARIABLES pc, request, upstream, response, accessed, fieldCount, fetchLog,
          inFlight, queue, collected

\* the variables of a fetch loop that is under way
loopVars == <<inFlight, queue, collected>>

vars == <<pc, request, upstream, response, accessed, fieldCount, fetchLog,
          inFlight, queue, collected>>

(***************************************************************************)
(* Bounds of the model.                                                    *)
(***************************************************************************)
MaxSymLen == 3

\* most fields of a snapshot payload (the decoders look at the length
\* thresholds 30, 45 and 46), and the number of payload contents tried
MaxFields == 48

MaxSeed == 2

\* most fields of an order-book payload (a full one has 33)
MaxDepthFields == 33

\* most lines of an index reply
MaxLines == 2

\* longest price history and largest window given to an indicator
MaxBars == 4

MaxPeriod == 3

\* bits of the significand of a floating-point number in the model
MantissaBits == 5

\* most bars in a reply of the K-line feed
MaxKlineBars == 27

\* the fields of a snapshot payload that may be blank
BlankIdx == {1, 39}

(***************************************************************************)
(* JavaScript string helpers.                                              *)
(***************************************************************************)
QUOTE == "\""

NEWLINE == "\n"

\* the text a template literal or parseInt makes of the value undefined
UNDEFINED == <<"u","n","d","e","f","i","n","e","d">>

\* String.prototype.startsWith
startsWith(s, p) == Len(s) >= Len(p) /\ SubSeq(s, 1, Len(p)) = p

\* all strings over alphabet A of length at most n
RECURSIVE StringsUpTo(_, _)
StringsUpTo(A, n) ==
    IF n = 0 THEN {<<>>}
    ELSE LET shorter == StringsUpTo(A, n - 1)
         IN  shorter \cup {Append(s, c) : s \in shorter, c \in A}


\* String.prototype.includes
includes(s, sub) ==
    \E i \in 1..(Len(s) - Len(sub) + 1) : SubSeq(s, i, i + Len(sub) - 1) = sub

\* the positions of s at which an occurrence of sub starts, in order
OccurrencesOf(s, sub) ==
    LET StartsHere(i) ==
            i + Len(sub) - 1 <= Len(s) /\ SubSeq(s, i, i + Len(sub) - 1) = sub
    IN  SelectSeq([i \in 1..Len(s) |-> i], StartsHere)

\* String.prototype.split with a non-empty separator string: the pieces
\* between the successive occurrences of sep; a text without the separator
\* is returned as the only piece.  No separator of the code (a double
\* quote, "~", ",", "=", a newline, "str_") can overlap itself, so every
\* occurrence separates.
split(s, sep) ==
    LET cuts == OccurrencesOf(s, sep)
    IN  [k \in 1..(Len(cuts) + 1) |->
            SubSeq(s, IF k = 1 THEN 1 ELSE cuts[k - 1] + Len(sep),
                      IF k > Len(cuts) THEN Len(s) ELSE cuts[k] - 1)]

\* Array.prototype.join
RECURSIVE join(_, _)
join(parts, sep) ==
    IF Len(parts) = 0 THEN <<>>
    ELSE IF Len(parts) = 1 THEN parts[1]
    ELSE LET half == Len(parts) \div 2
         IN  join(SubSeq(parts, 1, half), sep) \o sep
                 \o join(SubSeq(parts, half + 1, Len(parts)), sep)

\* the decimal text of a natural number
DigitChars == <<"0", "1", "2", "3", "4", "5", "6", "7", "8", "9">>

RECURSIVE Digits(_)
Digits(n) ==
    IF n < 10 THEN <<DigitChars[n + 1]>>
    ELSE Append(Digits(n \div 10), DigitChars[(n % 10) + 1])

(***************************************************************************)
(* JavaScript values read from an array: data[i] is the element when i is  *)
(* below the length and the value undefined otherwise.                     *)
(***************************************************************************)
Undefined == [def |-> FALSE, str |-> <<>>]

Defined(str) == [def |-> TRUE, str |-> str]

\* data[i], i counted from 0
At(data, i) == IF i < Len(data) THEN Defined(data[i + 1]) ELSE Undefined

\* truthiness of a string-or-undefined value
Truthy(v) == v.def /\ v.str # <<>>

\* `${v}`
ToText(v) == IF v.def THEN v.str ELSE UNDEFINED

(***************************************************************************)
(* JavaScript numbers.  A finite number is the fraction n/d in lowest      *)
(* terms with d > 0; d = 0 marks the three special values NaN (n = 0),     *)
(* Infinity (n = 1) and -Infinity (n = -1).  The sign of zero is not       *)
(* modelled: a zero divisor counts as +0, which is what x - x evaluates    *)
(* to.  Add, Sub, Mul and Div are the exact operations; FAdd, FSub, FMul,  *)
(* FDiv and FSqrt further below round their result as the floating-point   *)
(* format does.                                                            *)
(***************************************************************************)
Abs(n) == IF n < 0 THEN -n ELSE n

Sign(n) == IF n < 0 THEN -1 ELSE IF n > 0 THEN 1 ELSE 0

RECURSIVE GCD(_, _)
GCD(a, b) == IF b = 0 THEN a ELSE GCD(b, a % b)

Norm(n, d) ==
    IF d = 0 THEN [n |-> Sign(n), d |-> 0]
    ELSE LET g == GCD(Abs(n), Abs(d))
         IN  [n |-> (Sign(d) * n) \div g, d |-> Abs(d) \div g]

Num(n) == [n |-> n, d |-> 1]

NaN == [n |-> 0, d |-> 0]

IsNaN(x) == x.d = 0 /\ x.n = 0

Neg(x) == [n |-> -x.n, d |-> x.d]

\* x + y
Add(x, y) ==
    IF IsNaN(x) \/ IsNaN(y) THEN NaN
    ELSE IF x.d = 0 /\ y.d = 0 THEN (IF x.n = y.n THEN x ELSE NaN)
    ELSE IF x.d = 0 THEN x
    ELSE IF y.d = 0 THEN y
    ELSE Norm(x.n * y.d + y.n * x.d, x.d * y.d)

\* x - y
Sub(x, y) == Add(x, Neg(y))

\* x * y
Mul(x, y) == Norm(x.n * y.n, x.d * y.d)

\* x / y
Div(x, y) ==
    IF IsNaN(x) \/ IsNaN(y) THEN NaN
    ELSE IF y.d = 0 THEN (IF x.d = 0 THEN NaN ELSE Num(0))
    ELSE IF y.n = 0 THEN [n |-> Sign(x.n), d |-> 0]
    ELSE Mul(x, Norm(y.d, y.n))

\* x < y and x > y; a comparison with NaN is false
Lt(x, y) ==
    /\ ~IsNaN(x) /\ ~IsNaN(y)
    /\ IF x.d = 0 /\ y.d = 0 THEN x.n < y.n
       ELSE IF x.d = 0 THEN x.n < 0
       ELSE IF y.d = 0 THEN y.n > 0
       ELSE x.n * y.d < y.n * x.d

Gt(x, y) == Lt(y, x)

\* Math.floor
Floor(x) == IF x.d = 0 THEN x ELSE Num(x.n \div x.d)

(***************************************************************************)
(* Floating-point rounding.  Every arithmetic operation of the indicator   *)
(* functions yields the representable number nearest to the exact result,  *)
(* ties going to the even significand (IEEE 754 round-to-nearest-even).    *)
(* A double has a significand of 53 bits; the model keeps the rounding     *)
(* rule and scales the significand down to MantissaBits bits.  The         *)
(* exponent range is not bounded (no overflow to Infinity, no underflow).  *)
(* The literals of the code (50, 100, 3, ...) need five bits at most and   *)
(* are exact, as they are in a double.                                     *)
(***************************************************************************)
RECURSIVE Pow(_, _)
Pow(b, e) == IF e = 0 THEN 1 ELSE b * Pow(b, e - 1)

\* b^e as a number, e of either sign
PowNum(b, e) == IF e >= 0 THEN Num(Pow(b, e)) ELSE Norm(1, Pow(b, -e))

\* for a > 0: the number of times a has to be divided by b (negative:
\* multiplied by b) to fall into [lo, hi)
RECURSIVE ScaleExp(_, _, _, _)
ScaleExp(a, b, lo, hi) ==
    IF a.n >= hi * a.d THEN 1 + ScaleExp(Norm(a.n, a.d * b), b, lo, hi)
    ELSE IF a.n < lo * a.d THEN ScaleExp(Norm(a.n * b, a.d), b, lo, hi) - 1
    ELSE 0

\* the nearest number with a significand of MantissaBits bits
Round(x) ==
    IF x.d = 0 \/ x.n = 0 THEN x
    ELSE LET a == [n |-> Abs(x.n), d |-> x.d]
             \* the significand q of scaled = a / 2^e, up by one when the
             \* rest is above a half, or is a half and q is odd
             Nearest(e, scaled, q, twiceRest) ==
                 LET up == twiceRest > scaled.d
                               \/ (twiceRest = scaled.d /\ q % 2 = 1)
                 IN  Mul(Num(Sign(x.n) * (IF up THEN q + 1 ELSE q)), PowNum(2, e))
             Scaled(e, scaled) ==
                 Nearest(e, scaled, scaled.n \div scaled.d,
                         2 * (scaled.n % scaled.d))
             Scale(e) == Scaled(e, Mul(a, PowNum(2, -e)))
         IN  Scale(ScaleExp(a, 2, Pow(2, MantissaBits - 1), Pow(2, MantissaBits)))

\* the operations on floating-point numbers: NaN when an operand is NaN,
\* otherwise the exact result rounded
FAdd(x, y) == IF IsNaN(x) \/ IsNaN(y) THEN NaN ELSE Round(Add(x, y))

FSub(x, y) == IF IsNaN(x) \/ IsNaN(y) THEN NaN ELSE Round(Sub(x, y))

FMul(x, y) == IF IsNaN(x) \/ IsNaN(y) THEN NaN ELSE Round(Mul(x, y))

FDiv(x, y) == IF IsNaN(x) \/ IsNaN(y) THEN NaN ELSE Round(Div(x, y))

\* Math.sqrt, correctly rounded
FSqrt(x) ==
    IF IsNaN(x) \/ x.n < 0 THEN NaN
    ELSE IF x.d = 0 \/ x.n = 0 THEN x
    ELSE LET \* the root r of a = x / 4^e cut to an integer, up by one when
             \* a is above (r + 1/2)^2
             Nearest(e, a, r, half) ==
                 LET up == 4 * a.n > half \/ (4 * a.n = half /\ r % 2 = 1)
                 IN  Mul(Num(IF up THEN r + 1 ELSE r), PowNum(2, e))
             Root(e, a, r) == Nearest(e, a, r, (2 * r + 1) * (2 * r + 1) * a.d)
             Scaled(e, a) ==
                 Root(e, a,
                      CHOOSE k \in Pow(2, MantissaBits - 1)..(Pow(2, MantissaBits) - 1) :
                          k * k * a.d <= a.n /\ a.n < (k + 1) * (k + 1) * a.d)
             Scale(e) == Scaled(e, Mul(x, PowNum(4, -e)))
         IN  Scale(ScaleExp(x, 4, Pow(4, MantissaBits - 1), Pow(4, MantissaBits)))

(***************************************************************************)
(* parseInt(string) without a radix: leading blanks are skipped, a sign is *)
(* taken, then the longest run of decimal digits; no digit gives NaN.      *)
(* (A "0x" prefix selects radix 16; no field tried here starts with it.)   *)
(***************************************************************************)
IsDigit(c) == \E k \in 1..10 : DigitChars[k] = c

DigitValue(c) == (CHOOSE k \in 1..10 : DigitChars[k] = c) - 1

\* the number of leading characters of s, from position pos on, that
\* satisfy the test
RECURSIVE BlanksFrom(_, _)
BlanksFrom(s, pos) ==
    IF pos <= Len(s) /\ s[pos] = " " THEN 1 + BlanksFrom(s, pos + 1) ELSE 0

RECURSIVE DigitsFrom(_, _)
DigitsFrom(s, pos) ==
    IF pos <= Len(s) /\ IsDigit(s[pos]) THEN 1 + DigitsFrom(s, pos + 1) ELSE 0

\* the value of the decimal digits s[from..to]
RECURSIVE DecimalValue(_, _, _)
DecimalValue(s, from, to) ==
    IF to < from THEN 0
    ELSE 10 * DecimalValue(s, from, to - 1) + DigitValue(s[to])

parseInt(s) ==
    LET p0 == 1 + BlanksFrom(s, 1)
        signed == p0 <= Len(s) /\ s[p0] \in {"+", "-"}
        sgn == IF signed /\ s[p0] = "-" THEN -1 ELSE 1
        p1 == IF signed THEN p0 + 1 ELSE p0
        k == DigitsFrom(s, p1)
    IN  IF k = 0 THEN NaN ELSE Num(sgn * DecimalValue(s, p1, p1 + k - 1))

\* parseFloat: blanks, a sign, decimal digits and a fraction; NaN when
\* neither an integer digit nor a fraction digit is there; the value is
\* the nearest floating-point number.  Exponents and the word Infinity do
\* not occur in the texts of the model.
parseFloat(s) ==
    LET p0 == 1 + BlanksFrom(s, 1)
        signed == p0 <= Len(s) /\ s[p0] \in {"+", "-"}
        sgn == IF signed /\ s[p0] = "-" THEN -1 ELSE 1
        p1 == IF signed THEN p0 + 1 ELSE p0
        k == DigitsFrom(s, p1)
        dotted == p1 + k <= Len(s) /\ s[p1 + k] = "."
        m == IF dotted THEN DigitsFrom(s, p1 + k + 1) ELSE 0
        whole == DecimalValue(s, p1, p1 + k - 1)
        fraction == DecimalValue(s, p1 + k + 1, p1 + k + m)
    IN  IF k = 0 /\ m = 0 THEN NaN
        ELSE Round(Norm(sgn * (whole * Pow(10, m) + fraction), Pow(10, m)))

(***************************************************************************)
(* normalizeCode (index.js 142-150)                                        *)
(***************************************************************************)
\* faulty variant: the "5" test is missing
normalizeCode_only6(symbol) ==
    IF startsWith(symbol, <<"s","h">>) \/ startsWith(symbol, <<"s","z">>)
    THEN symbol
    ELSE IF startsWith(symbol, <<"6">>)
         THEN <<"s","h">> \o symbol
         ELSE <<"s","z">> \o symbol

\* faulty variant: the test for an existing prefix is missing
normalizeCode_noPrefixTest(symbol) ==
    IF startsWith(symbol, <<"5">>) \/ startsWith(symbol, <<"6">>)
    THEN <<"s","h">> \o symbol
    ELSE <<"s","z">> \o symbol

normalizeCode(symbol) ==
    IF startsWith(symbol, <<"s","h">>) \/ startsWith(symbol, <<"s","z">>)
    THEN symbol
    ELSE IF startsWith(symbol, <<"5">>) \/ startsWith(symbol, <<"6">>)
         THEN <<"s","h">> \o symbol
         ELSE <<"s","z">> \o symbol

\* characters of the symbols tried: both prefixes, both Shanghai digits,
\* another digit and an upper-case letter
SymbolChars == {"s", "h", "z", "5", "6", "0", "S"}

Symbols == StringsUpTo(SymbolChars, MaxSymLen)

(***************************************************************************)
(* fetchStockData (index.js 155-207): the text of the reply, or a throw.   *)
(***************************************************************************)
FetchFailed == [ok |-> FALSE, text |-> <<>>]

FetchOutcomes(texts) == {FetchFailed} \cup {[ok |-> TRUE, text |-> t] : t \in texts}

(***************************************************************************)
(* The outer catch of the CallTool handler (index.js 1009-1022): whatever  *)
(* a case throws becomes a response with isError: true.                    *)
(***************************************************************************)
Caught(message) ==
    [response   |-> [kind |-> "error", isError |-> TRUE, message |-> message],
     accessed   |-> {},
     fieldCount |-> 0]

\* a case returned normally after splitting the payload into `data` and
\* reading the indices `idx` of it
Returned(resp, idx, data) ==
    [response |-> resp, accessed |-> idx, fieldCount |-> Len(data)]

(***************************************************************************)
(* Replies of the single-instrument snapshot feed (qt.gtimg.cn): one       *)
(* assignment whose quoted payload is n fields joined by "~".  Field i     *)
(* holds the decimal text of seed*100 + i, or nothing when i is in blank.  *)
(***************************************************************************)
SnapshotPayload(n, seed, blank) ==
    join([k \in 1..n |-> IF (k - 1) \in blank THEN <<>>
                         ELSE Digits(seed * 100 + (k - 1))],
         <<"~">>)

SnapshotText(n, seed, blank) ==
    <<"v", "=", QUOTE>> \o SnapshotPayload(n, seed, blank) \o <<QUOTE, ";">>

\* replies without any double quote: an empty body and an error page
UnquotedTexts == {<<>>, <<"<","h","t","m","l",">">>}

SnapshotTexts ==
    UnquotedTexts
        \cup {SnapshotText(n, seed, blank) :
                 n \in 1..MaxFields, seed \in 1..MaxSeed, blank \in SUBSET BlankIdx}

SnapSymbols == {<<"6","0","0">>, <<"0","0","1">>}

(***************************************************************************)
(* case "get_stock_price" (index.js 478-497)                               *)
(***************************************************************************)
get_stock_price(symbol, fetched) ==
    LET code == normalizeCode(symbol)
    IN  IF ~fetched.ok THEN Caught("fetch")
        ELSE LET parts == split(fetched.text, <<QUOTE>>)
             IN  IF Len(parts) < 2
                 THEN Caught("TypeError")    \* undefined.split
                 ELSE LET data == split(parts[2], <<"~">>)
                      IN  IF Len(data) < 30
                          THEN Returned([kind |-> "notFound", isError |-> FALSE],
                                        {}, data)
                          ELSE Returned(
                                 [kind          |-> "price",
                                  isError       |-> FALSE,
                                  code          |-> code,
                                  name          |-> ToText(At(data, 1)),
                                  price         |-> ToText(At(data, 3)),
                                  changePercent |-> ToText(At(data, 32)),
                                  changeAmount  |-> ToText(At(data, 31))],
                                 {1, 3, 32, 31}, data)

(***************************************************************************)
(* case "get_stock_fundamentals" (index.js 499-524)                        *)
(***************************************************************************)
get_stock_fundamentals(symbol, fetched) ==
    LET code == normalizeCode(symbol)
    IN  IF ~fetched.ok THEN Caught("fetch")
        ELSE LET parts == split(fetched.text, <<QUOTE>>)
             IN  IF Len(parts) < 2
                 THEN Caught("TypeError")    \* undefined.split
                 ELSE LET data == split(parts[2], <<"~">>)
                          pe == IF Truthy(At(data, 39)) THEN ToText(At(data, 39))
                                ELSE <<"N","/","A">>
                          pb == IF Len(data) > 46 THEN ToText(At(data, 46))
                                ELSE ToText(At(data, 44))
                          mktCap == ToText(At(data, 45))
                      IN  IF Len(data) < 45
                          THEN Returned([kind |-> "unavailable", isError |-> FALSE],
                                        {}, data)
                          ELSE Returned(
                                 [kind    |-> "fundamentals",
                                  isError |-> FALSE,
                                  name    |-> ToText(At(data, 1)),
                                  pe      |-> pe,
                                  pb      |-> pb,
                                  mktCap  |-> mktCap],
                                 {1, 39, 45, IF Len(data) > 46 THEN 46 ELSE 44},
                                 data)

(***************************************************************************)
(* Replies of the order-book feed (hq.sinajs.cn): one assignment whose     *)
(* quoted payload is n fields joined by ",".  Field i holds the decimal    *)
(* text of 100*i + 45 (so that a volume field i makes i lots), except      *)
(* field k, which holds the text v.                                        *)
(***************************************************************************)
DepthPayload(n, k, v) ==
    join([j \in 1..n |-> IF j - 1 = k THEN v ELSE Digits(100 * (j - 1) + 45)],
         <<",">>)

DepthText(n, k, v) ==
    <<"v", "=", QUOTE>> \o DepthPayload(n, k, v) \o <<QUOTE, ";">>

\* the fields holding the share counts of bid 1..5 and ask 1..5
VolumeIdx == {10, 12, 14, 16, 18, 20, 22, 24, 26, 28}

\* share counts as the feed may print them: plain, below one lot, blank,
\* not a number, negative, with leading blank, with a fraction
VolumeSamples ==
    {<<"1","2","3","4","5">>, <<"9","9">>, <<>>, <<"-","-">>,
     <<"-","1","5","0">>, <<" ","4","2","0">>, <<"2","5","0",".","9">>}

DepthTexts ==
    UnquotedTexts
        \cup {DepthText(n, k, v) :
                 n \in 0..MaxDepthFields, k \in VolumeIdx, v \in VolumeSamples}

(***************************************************************************)
(* case "get_trading_depth" (index.js 526-551)                             *)
(***************************************************************************)
\* Math.floor(parseInt(data[i]) / 100)
Lots(data, i) == Floor(Div(parseInt(ToText(At(data, i))), Num(100)))

Level(data, level, priceIdx, volumeIdx) ==
    [level  |-> level,
     price  |-> ToText(At(data, priceIdx)),
     volume |-> Lots(data, volumeIdx)]

get_trading_depth(symbol, fetched) ==
    LET code == normalizeCode(symbol)
    IN  IF ~fetched.ok THEN Caught("fetch")
        ELSE IF ~includes(fetched.text, <<"=", QUOTE>>)
        THEN [response   |-> [kind |-> "depthFailed", isError |-> FALSE],
              accessed   |-> {},
              fieldCount |-> 0]
        ELSE LET dataStr == split(fetched.text, <<QUOTE>>)[2]
                 data == split(dataStr, <<",">>)
             IN  Returned(
                   [kind    |-> "depth",
                    isError |-> FALSE,
                    name    |-> ToText(At(data, 0)),
                    asks    |-> <<Level(data, 5, 29, 28),
                                  Level(data, 4, 27, 26),
                                  Level(data, 3, 25, 24),
                                  Level(data, 2, 23, 22),
                                  Level(data, 1, 21, 20)>>,
                    bids    |-> <<Level(data, 1, 11, 10),
                                  Level(data, 2, 13, 12)>>],
                   {0, 29, 28, 27, 26, 25, 24, 23, 22, 21, 20, 11, 10, 13, 12},
                   data)

(***************************************************************************)
(* Replies of the index feed (hq.sinajs.cn/list=s_sh000001,...): one       *)
(* assignment line per index.  The names are two letters here.             *)
(***************************************************************************)
\* the Shanghai index, a key of the table
LineShanghai ==
    <<"v","a","r"," ","h","q","_","s","t","r","_","s","_","s","h","0","0",
      "0","0","0","1","=",QUOTE,"S","H",",","3","0","0","0",".","0","0",",",
      "-","1","0",".","0","0",",","-","0",".","3","3",QUOTE,";">>

\* the Shenzhen index, a key of the table
LineShenzhen ==
    <<"v","a","r"," ","h","q","_","s","t","r","_","s","_","s","z","3","9",
      "9","0","0","1","=",QUOTE,"S","Z",",","9","5","0","0",".","1","0",",",
      "2","0",".","0","0",",","0",".","2","1",QUOTE,";">>

\* a key of the table with a payload of one field
LineOneField ==
    <<"v","a","r"," ","h","q","_","s","t","r","_","s","_","s","z","3","9",
      "9","0","0","6","=",QUOTE,"C","Y",QUOTE,";">>

\* a record whose key is not in the table
LineUnknownKey ==
    <<"v","a","r"," ","h","q","_","s","t","r","_","s","_","s","h","0","0",
      "0","3","0","0","=",QUOTE,"H","S",",","4","0","0","0",".","0","0",",",
      "1",".","0","0",",","0",".","0","2",QUOTE,";">>

\* ten or more characters without a double quote
LineNoQuote ==
    <<"<","h","t","m","l",">","4","0","3"," ","F","o","r","b","i","d","d",
      "e","n","<","/","h","t","m","l",">">>

\* a key of the table without a quoted payload
LineKeyNoQuote ==
    <<"v","a","r"," ","h","q","_","s","t","r","_","s","_","s","h","0","0",
      "0","0","0","1","=",";">>

\* no "=" sign
LineNoEquals ==
    <<"h","q","_","s","t","r","_","s","_","s","h","0","0","0","0","0","1",
      " ",QUOTE,"S","H",",","1",".","0","0",",","2",".","0","0",",","3",".",
      "0","0",QUOTE>>

\* no "str_" marker
LineNoMarker ==
    <<"v","a","r"," ","h","q","_","s","_","s","h","0","0","0","0","0","1",
      "=",QUOTE,"S","H",",","1",".","0","0",",","2",".","0","0",",","3",".",
      "0","0",QUOTE,";">>

\* a key that names a property every object inherits
LineInheritedKey ==
    <<"v","a","r"," ","h","q","_","s","t","r","_","v","a","l","u","e","O",
      "f","=",QUOTE,"V","O",",","1",".","0","0",",","2",".","0","0",",","3",
      ".","0","0",QUOTE,";">>

\* a blank line (fewer than 10 characters)
LineShort ==
    <<>>

LineSamples ==
    {LineShanghai, LineShenzhen, LineOneField, LineUnknownKey, LineNoQuote,
     LineKeyNoQuote, LineNoEquals, LineNoMarker, LineInheritedKey, LineShort}

\* the texts of at most n lines
RECURSIVE LineSeqs(_)
LineSeqs(n) ==
    IF n = 0 THEN {<<>>}
    ELSE LET shorter == LineSeqs(n - 1)
         IN  shorter \cup {Append(ls, l) : ls \in shorter, l \in LineSamples}

IndexTexts == {join(ls, <<NEWLINE>>) : ls \in LineSeqs(MaxLines)}

(***************************************************************************)
(* case "get_market_overview" (index.js 444-476)                           *)
(***************************************************************************)
KeyShanghai == <<"s","_","s","h","0","0","0","0","0","1">>

KeyShenzhen == <<"s","_","s","z","3","9","9","0","0","1">>

KeyChiNext == <<"s","_","s","z","3","9","9","0","0","6">>

NameShanghai == <<"S","H">>

NameShenzhen == <<"S","Z">>

NameChiNext == <<"C","Y">>

\* indexNames[key]: the table is an object literal, so a key that is not
\* its own is looked up in Object.prototype, whose properties (valueOf,
\* toString, constructor, ...) are functions, hence truthy
NativeFunctionText == <<"f","u","n","c","t","i","o","n">>

ObjectPrototypeKeys ==
    {<<"v","a","l","u","e","O","f">>, <<"t","o","S","t","r","i","n","g">>}

indexNames(key) ==
    IF key = KeyShanghai THEN Defined(NameShanghai)
    ELSE IF key = KeyShenzhen THEN Defined(NameShenzhen)
    ELSE IF key = KeyChiNext THEN Defined(NameChiNext)
    ELSE IF key \in ObjectPrototypeKeys THEN Defined(NativeFunctionText)
    ELSE Undefined

\* the for loop over the lines, from line i on, with the quotes appended
\* so far; a line without a double quote makes dataStr undefined and
\* dataStr.split throws
RECURSIVE DecodeIndexLines(_, _, _)
DecodeIndexLines(lines, i, result) ==
    IF i > Len(lines) THEN [thrown |-> FALSE, quotes |-> result]
    ELSE LET line == lines[i]
             leftSide == split(line, <<"=">>)[1]
             code == At(split(leftSide, <<"s","t","r","_">>), 1)
             dataStr == At(split(line, <<QUOTE>>), 1)
         IN  IF Len(line) < 10 THEN DecodeIndexLines(lines, i + 1, result)
             ELSE IF ~dataStr.def THEN [thrown |-> TRUE, quotes |-> result]
             ELSE LET data == split(dataStr.str, <<",">>)
                      name == indexNames(ToText(code))
                  IN  IF Truthy(name)
                      THEN DecodeIndexLines(lines, i + 1,
                               Append(result,
                                      [name      |-> ToText(name),
                                       price     |-> ToText(At(data, 1)),
                                       changePct |-> ToText(At(data, 3))]))
                      ELSE DecodeIndexLines(lines, i + 1, result)

get_market_overview(fetched) ==
    IF ~fetched.ok THEN Caught("fetch")
    ELSE LET lines == split(fetched.text, <<NEWLINE>>)
             decoded == DecodeIndexLines(lines, 1, <<>>)
         IN  IF decoded.thrown THEN Caught("TypeError")
             ELSE [response   |-> [kind    |-> "overview",
                                   isError |-> FALSE,
                                   quotes  |-> decoded.quotes],
                   accessed   |-> {},
                   fieldCount |-> 0]

(***************************************************************************)
(* Arrays of numbers.  Reading outside the array gives undefined, which    *)
(* arithmetic turns into NaN.                                              *)
(***************************************************************************)
NumAt(arr, i) == IF i >= 0 /\ i < Len(arr) THEN arr[i + 1] ELSE NaN

\* arr.slice(-k) for k >= 0: the last k elements, all of them when the
\* array is shorter, and (since -0 is 0) the whole array when k = 0
SliceLast(arr, k) ==
    IF k = 0 \/ k >= Len(arr) THEN arr
    ELSE SubSeq(arr, Len(arr) - k + 1, Len(arr))

\* arr.reduce((acc, val) => acc + val, 0), from the i-th element on with
\* the sum so far; a sum that is NaN stays NaN
RECURSIVE SumFrom(_, _, _)
SumFrom(arr, i, acc) ==
    IF i > Len(arr) THEN acc
    ELSE LET next == FAdd(acc, arr[i])
         IN  IF IsNaN(next) THEN NaN ELSE SumFrom(arr, i + 1, next)

Sum(arr) == SumFrom(arr, 1, Num(0))

\* Math.max(...arr) and Math.min(...arr): NaN when an element is NaN,
\* -Infinity and Infinity for no element
RECURSIVE MathMax(_)
MathMax(arr) ==
    IF arr = <<>> THEN [n |-> -1, d |-> 0]
    ELSE LET rest == MathMax(Tail(arr))
         IN  IF IsNaN(Head(arr)) \/ IsNaN(rest) THEN NaN
             ELSE IF Lt(Head(arr), rest) THEN rest ELSE Head(arr)

RECURSIVE MathMin(_)
MathMin(arr) ==
    IF arr = <<>> THEN [n |-> 1, d |-> 0]
    ELSE LET rest == MathMin(Tail(arr))
         IN  IF IsNaN(Head(arr)) \/ IsNaN(rest) THEN NaN
             ELSE IF Lt(rest, Head(arr)) THEN rest ELSE Head(arr)

(***************************************************************************)
(* calculateRSI (index.js 22-44)                                           *)
(***************************************************************************)
\* the for loop from index i on, with the sums so far (each new sum is
\* computed before the next round starts)
RECURSIVE RSISums(_, _, _, _)
RSISums(prices, i, gains, losses) ==
    IF i >= Len(prices) THEN [gains |-> gains, losses |-> losses]
    ELSE LET change == FSub(NumAt(prices, i), NumAt(prices, i - 1))
             more == FAdd(gains, change)
             less == FSub(losses, change)
         IN  IF Gt(change, Num(0))
             THEN (IF IsNaN(more) THEN RSISums(prices, i + 1, NaN, losses)
                   ELSE RSISums(prices, i + 1, more, losses))
             ELSE (IF IsNaN(less) THEN RSISums(prices, i + 1, gains, NaN)
                   ELSE RSISums(prices, i + 1, gains, less))

RSIFromSums(sums, period) ==
    LET avgGain == FDiv(sums.gains, Num(period))
        avgLoss == FDiv(sums.losses, Num(period))
        rs == FDiv(avgGain, avgLoss)
    IN  IF avgLoss = Num(0) THEN Num(100)
        ELSE FSub(Num(100), FDiv(Num(100), FAdd(Num(1), rs)))

\* faulty variant: the guard compares with period instead of period + 1
calculateRSI_guardPeriod(prices, period) ==
    IF Len(prices) < period THEN Num(50)
    ELSE RSIFromSums(RSISums(prices, Len(prices) - period, Num(0), Num(0)),
                     period)

\* faulty variant: the loop runs over the transitions of the whole history
calculateRSI_wholeHistory(prices, period) ==
    IF Len(prices) < period + 1 THEN Num(50)
    ELSE RSIFromSums(RSISums(prices, 1, Num(0), Num(0)), period)

calculateRSI(prices, period) ==
    IF Len(prices) < period + 1 THEN Num(50)
    ELSE RSIFromSums(RSISums(prices, Len(prices) - period, Num(0), Num(0)),
                     period)

(***************************************************************************)
(* calculateMACD (index.js 49-81)                                          *)
(***************************************************************************)
\* the loop of calculateEMA from index i on
RECURSIVE EMAFrom(_, _, _, _)
EMAFrom(data, multiplier, i, ema) ==
    IF i >= Len(data) THEN ema
    ELSE LET next == FAdd(FMul(FSub(NumAt(data, i), ema), multiplier), ema)
         IN  IF IsNaN(next) THEN NaN
             ELSE EMAFrom(data, multiplier, i + 1, next)

calculateEMA(data, period) ==
    EMAFrom(data, FDiv(Num(2), Num(period + 1)), 1, NumAt(data, 0))

calculateMACD(prices, fastPeriod, slowPeriod) ==
    IF Len(prices) < slowPeriod
    THEN [dif |-> Num(0), dea |-> Num(0), macd |-> Num(0)]
    ELSE LET recentPrices == SliceLast(prices, slowPeriod)
             fastEMA == calculateEMA(recentPrices, fastPeriod)
             slowEMA == calculateEMA(recentPrices, slowPeriod)
             \* macd = 2 * (dif - dea)
             WithDea(dif, dea) ==
                 [dif |-> dif, dea |-> dea, macd |-> FMul(Num(2), FSub(dif, dea))]
             \* dea = dif * 0.9
             WithDif(dif) == WithDea(dif, FMul(dif, Round(Norm(9, 10))))
         IN  WithDif(FSub(fastEMA, slowEMA))

(***************************************************************************)
(* calculateKDJ (index.js 86-110)                                          *)
(***************************************************************************)
\* faulty variant: a flat window is answered with the values of a short
\* history
calculateKDJ_flatGuard(highs, lows, closes, period) ==
    IF Len(highs) < period
           \/ MathMax(SliceLast(highs, period)) = MathMin(SliceLast(lows, period))
    THEN [k |-> Num(50), d |-> Num(50), j |-> Num(50)]
    ELSE LET rsv == FMul(FDiv(FSub(NumAt(SliceLast(closes, period),
                                         Len(SliceLast(closes, period)) - 1),
                                   MathMin(SliceLast(lows, period))),
                              FSub(MathMax(SliceLast(highs, period)),
                                   MathMin(SliceLast(lows, period)))),
                         Num(100))
             WithD(k, d) ==
                 [k |-> k, d |-> d, j |-> FSub(FMul(Num(3), k), FMul(Num(2), d))]
             WithK(k) ==
                 WithD(k, FAdd(FMul(FDiv(Num(2), Num(3)), Num(50)),
                               FMul(FDiv(Num(1), Num(3)), k)))
         IN  WithK(FAdd(FMul(FDiv(Num(2), Num(3)), Num(50)),
                        FMul(FDiv(Num(1), Num(3)), rsv)))

\* faulty variant: the weights of the previous value and of the new one are
\* exchanged
calculateKDJ_swappedWeights(highs, lows, closes, period) ==
    IF Len(highs) < period
    THEN [k |-> Num(50), d |-> Num(50), j |-> Num(50)]
    ELSE LET rsv == FMul(FDiv(FSub(NumAt(SliceLast(closes, period),
                                         Len(SliceLast(closes, period)) - 1),
                                   MathMin(SliceLast(lows, period))),
                              FSub(MathMax(SliceLast(highs, period)),
                                   MathMin(SliceLast(lows, period)))),
                         Num(100))
             WithD(k, d) ==
                 [k |-> k, d |-> d, j |-> FSub(FMul(Num(3), k), FMul(Num(2), d))]
             WithK(k) ==
                 WithD(k, FAdd(FMul(FDiv(Num(1), Num(3)), Num(50)),
                               FMul(FDiv(Num(2), Num(3)), k)))
         IN  WithK(FAdd(FMul(FDiv(Num(1), Num(3)), Num(50)),
                        FMul(FDiv(Num(2), Num(3)), rsv)))

calculateKDJ(highs, lows, closes, period) ==
    IF Len(highs) < period
    THEN [k |-> Num(50), d |-> Num(50), j |-> Num(50)]
    ELSE LET recentHighs == SliceLast(highs, period)
             recentLows == SliceLast(lows, period)
             recentCloses == SliceLast(closes, period)
             highestHigh == MathMax(recentHighs)
             lowestLow == MathMin(recentLows)
             currentClose == NumAt(recentCloses, Len(recentCloses) - 1)
             rsv == FMul(FDiv(FSub(currentClose, lowestLow),
                              FSub(highestHigh, lowestLow)),
                         Num(100))
             \* j = 3 * k - 2 * d
             WithD(k, d) ==
                 [k |-> k, d |-> d, j |-> FSub(FMul(Num(3), k), FMul(Num(2), d))]
             \* d = (2 / 3) * 50 + (1 / 3) * k
             WithK(k) ==
                 WithD(k, FAdd(FMul(FDiv(Num(2), Num(3)), Num(50)),
                               FMul(FDiv(Num(1), Num(3)), k)))
             \* k = (2 / 3) * 50 + (1 / 3) * rsv
         IN  WithK(FAdd(FMul(FDiv(Num(2), Num(3)), Num(50)),
                        FMul(FDiv(Num(1), Num(3)), rsv)))

(***************************************************************************)
(* calculateBOLL (index.js 115-135)                                        *)
(***************************************************************************)
\* recentPrices.map(price => Math.pow(price - middle, 2))
SquaredDiffs(recentPrices, middle) ==
    [i \in 1..Len(recentPrices) |->
        FMul(FSub(recentPrices[i], middle), FSub(recentPrices[i], middle))]

calculateBOLL(prices, period, multiplier) ==
    IF Len(prices) < period
    THEN [upper |-> Num(0), middle |-> Num(0), lower |-> Num(0)]
    ELSE LET recentPrices == SliceLast(prices, period)
             Bands(middle, standardDeviation) ==
                 [upper  |-> FAdd(middle, FMul(Num(multiplier), standardDeviation)),
                  middle |-> middle,
                  lower  |-> FSub(middle, FMul(Num(multiplier), standardDeviation))]
             \* standardDeviation = Math.sqrt(avgSquaredDiff)
             Around(middle) ==
                 Bands(middle,
                       FSqrt(FDiv(Sum(SquaredDiffs(recentPrices, middle)),
                                  Num(period))))
         IN  Around(FDiv(Sum(recentPrices), Num(period)))

(***************************************************************************)
(* Histories given to the indicator functions: closes, and bars of high,   *)
(* low and close, among them a flat bar, a close above every high and a    *)
(* bar whose low is above its high.                                        *)
(* Every price is a representable number, as parseFloat returns one.       *)
(***************************************************************************)
Closes == {Num(1), Num(2), Num(4), Num(11)}

Bars ==
    {[high |-> Num(3), low |-> Num(1), close |-> Num(2)],
     [high |-> Num(2), low |-> Num(2), close |-> Num(2)],
     [high |-> Num(4), low |-> Num(2), close |-> Num(4)],
     [high |-> Num(2), low |-> Num(2), close |-> Num(11)],
     [high |-> Num(1), low |-> Num(3), close |-> Num(2)]}

CloseHistories == StringsUpTo(Closes, MaxBars)

BarHistories == StringsUpTo(Bars, MaxBars)

Periods == 1..MaxPeriod

Column(bars, field) == [i \in 1..Len(bars) |-> bars[i][field]]

(***************************************************************************)
(* Multi-instrument handlers: the candidate lists in the code, the replies *)
(* of the snapshot feed to the per-code fetches, and the array operations  *)
(* the handlers use.                                                       *)
(***************************************************************************)
\* an optional numeric argument of a tool call
NoArg == [given |-> FALSE, value |-> 0]

Arg(v) == [given |-> TRUE, value |-> v]

\* args.limit || fallback : a missing limit and the limit 0 are falsy
LimitOr(arg, fallback) ==
    IF arg.given /\ arg.value # 0 THEN arg.value ELSE fallback

\* [...new Set(arr)] : the first occurrence of every element, in order
UniqueOf(arr) ==
    LET IsFirst(k) == \A j \in 1..(k - 1) : arr[j] # arr[k]
        firsts == SelectSeq([k \in 1..Len(arr) |-> k], IsFirst)
    IN  [k \in 1..Len(firsts) |-> arr[firsts[k]]]

\* arr.slice(0, end) for an integer end: a negative end counts from the
\* end of the array
SliceTo(arr, end) ==
    LET stop == IF end < 0 THEN (IF Len(arr) + end < 0 THEN 0 ELSE Len(arr) + end)
                ELSE IF end > Len(arr) THEN Len(arr) ELSE end
    IN  SubSeq(arr, 1, stop)

\* the lists of get_hot_stocks (index.js 822-844)
HotShanghai ==
    <<"sh600519", "sh601318", "sh600036", "sh600276", "sh601328",
      "sh600000", "sh601398", "sh601939", "sh600104", "sh601988">>

szStocks ==
    <<"sz000858", "sz000651", "sz300750", "sz002594", "sz002415",
      "sz000001", "sz000002", "sz000725", "sz300015", "sz300142">>

cyStocks == <<"sz300750", "sz300059", "sz300142", "sz300124", "sz300033">>

\* the lists of get_stock_peers (index.js 750-762)
PeersShanghai ==
    <<"sh600000", "sh600036", "sh600015", "sh600016", "sh601328",
      "sh601398", "sh601939", "sh601166", "sh601229", "sh600104">>

PeersShenzhen ==
    <<"sz000001", "sz000002", "sz000725", "sz000876", "sz000839",
      "sz000858", "sz000001", "sz000002", "sz000725", "sz000876">>

PeersChiNext ==
    <<"sz300001", "sz300002", "sz300003", "sz300005", "sz300015",
      "sz300033", "sz300059", "sz300124", "sz300142", "sz300750">>

PeersDefault ==
    <<"sh600519", "sh601318", "sh600036", "sz000858", "sz300750",
      "sz002594", "sh600276", "sz000651", "sh601988", "sz002415">>

\* every code of the lists, once
AllCodes ==
    UniqueOf(HotShanghai \o szStocks \o cyStocks \o PeersShanghai
                 \o PeersShenzhen \o PeersChiNext \o PeersDefault)

CodeIndex(code) == CHOOSE k \in 1..Len(AllCodes) : AllCodes[k] = code

\* what the feed does on the fetch of one code: the fetch fails, or it
\* returns a text -- an error page, or a snapshot of 30, 31 or MaxFields
\* fields, the full ones with the keys of seed 1 (Low) or of seed 2 (High),
\* and one with an empty change-percent and volume field
ReplyFailed == FetchFailed

ReplyPage == [ok |-> TRUE, text |-> <<"<","h","t","m","l",">">>]

Reply30 == [ok |-> TRUE, text |-> SnapshotText(30, 1, {})]

Reply31 == [ok |-> TRUE, text |-> SnapshotText(31, 1, {})]

ReplyLow == [ok |-> TRUE, text |-> SnapshotText(MaxFields, 1, {})]

ReplyHigh == [ok |-> TRUE, text |-> SnapshotText(MaxFields, 2, {})]

ReplyBlank == [ok |-> TRUE, text |-> SnapshotText(MaxFields, 2, {6, 32})]

\* the feed during one tool call: the replies of a pattern are dealt to
\* the codes in turn
FeedOf(pattern) ==
    [k \in 1..Len(AllCodes) |-> pattern[((k - 1) % Len(pattern)) + 1]]

ReplyTo(feed, code) == feed[CodeIndex(code)]

\* feeds whose snapshots all have numeric keys
NumericPatterns ==
    {<<ReplyLow>>,
     <<ReplyLow, ReplyHigh>>,
     <<ReplyHigh, ReplyLow, ReplyLow>>,
     <<ReplyLow, ReplyFailed, ReplyHigh>>,
     <<ReplyHigh, ReplyPage, ReplyLow, Reply30, ReplyLow, ReplyFailed, ReplyHigh>>,
     <<ReplyFailed>>}

\* feeds with a snapshot whose change percent and volume are not numbers
BlankPatterns ==
    {<<ReplyLow, Reply31>>,
     <<ReplyBlank, ReplyHigh, ReplyLow>>}

(***************************************************************************)
(* case "get_hot_stocks" (index.js 802-913)                                *)
(***************************************************************************)
\* the candidates of a market, before deduplication (index.js 820-845)
HotCandidates(market) ==
    (IF market \in {"sh", "all"} THEN HotShanghai ELSE <<>>)
        \o (IF market \in {"sz", "all"} THEN szStocks ELSE <<>>)
        \o (IF market \in {"cy", "all"} THEN cyStocks ELSE <<>>)

\* hotStocks = [...new Set(hotStocks)].slice(0, limit)
HotStocksOf(market, limit) == SliceTo(UniqueOf(HotCandidates(market)), limit)

\* parseFloat(x) || 0
FloatOrZero(str) ==
    LET value == parseFloat(str) IN IF IsNaN(value) THEN Num(0) ELSE value

\* the body of the try block for one reply (index.js 861-881): the values
\* of the record it pushes, or nothing when the fetch or the split throws
\* or the payload has 30 fields or fewer
StockItemOf(fetched) ==
    IF ~fetched.ok THEN <<>>
    ELSE LET parts == split(fetched.text, <<QUOTE>>)
         IN  IF Len(parts) < 2 THEN <<>>
             ELSE LET stockItem == split(parts[2], <<"~">>)
                  IN  IF Len(stockItem) > 30
                      THEN <<[name          |-> ToText(At(stockItem, 1)),
                              price         |-> parseFloat(ToText(At(stockItem, 3))),
                              changePercent |-> parseFloat(ToText(At(stockItem, 32))),
                              volume        |-> parseFloat(ToText(At(stockItem, 6))),
                              turnover      |-> FloatOrZero(ToText(At(stockItem, 38)))]>>
                      ELSE <<>>

Replies ==
    {ReplyFailed, ReplyPage, Reply30, Reply31, ReplyLow, ReplyHigh, ReplyBlank}

\* StockItemOf on the replies of the model
StockItems == [fetched \in Replies |-> StockItemOf(fetched)]

\* one pass of the loop: what stockData.push appends for stockCode
HotPush(stockCode, fetched) ==
    IF StockItems[fetched] = <<>> THEN <<>>
    ELSE LET item == StockItems[fetched][1]
         IN  <<[code          |-> stockCode,
                name          |-> item.name,
                price         |-> item.price,
                changePercent |-> item.changePercent,
                volume        |-> item.volume,
                turnover      |-> item.turnover]>>

\* stockData after the loop over the codes: what the passes push, in the
\* order of the codes
RECURSIVE HotLoop(_, _)
HotLoop(codes, feed) ==
    IF codes = <<>> THEN <<>>
    ELSE IF Len(codes) = 1 THEN HotPush(codes[1], ReplyTo(feed, codes[1]))
    ELSE LET half == Len(codes) \div 2
         IN  HotLoop(SubSeq(codes, 1, half), feed)
                 \o HotLoop(SubSeq(codes, half + 1, Len(codes)), feed)

\* the comparator of stockData.sort (index.js 890-899)
HotCompare(a, b, sortBy) ==
    IF sortBy = "change_rate" THEN FSub(b.changePercent, a.changePercent)
    ELSE IF sortBy = "volume" THEN FSub(b.volume, a.volume)
    ELSE IF sortBy = "turnover" THEN FSub(b.turnover, a.turnover)
    ELSE Num(0)

\* Array.prototype.sort is stable: an element comes behind the elements
\* that compare less than it and behind the earlier elements that compare
\* equal to it
SortedBy(arr, sortBy) ==
    LET Ahead(i) ==
            Cardinality({j \in 1..Len(arr) :
                \/ Lt(HotCompare(arr[j], arr[i], sortBy), Num(0))
                \/ HotCompare(arr[j], arr[i], sortBy) = Num(0) /\ j < i})
    IN  [p \in 1..Len(arr) |-> arr[CHOOSE i \in 1..Len(arr) : Ahead(i) = p - 1]]

\* the comparator is consistent on the array when no comparison is NaN
ConsistentOn(arr, sortBy) ==
    \A i, j \in 1..Len(arr) : ~IsNaN(HotCompare(arr[i], arr[j], sortBy))

Reorderings(arr) ==
    {[k \in 1..Len(arr) |-> arr[p[k]]] :
        p \in {q \in [1..Len(arr) -> 1..Len(arr)] :
                  \A i, j \in 1..Len(arr) : q[i] = q[j] => i = j}}

\* what stockData.sort can leave: the stable order for a consistent
\* comparator; with a NaN comparison the order is implementation-defined
SortOutcomes(arr, sortBy) ==
    IF ConsistentOn(arr, sortBy) THEN {SortedBy(arr, sortBy)} ELSE Reorderings(arr)

\* args.sort_by || "change_rate" and args.market || "all"
TextOr(arg, fallback) == IF arg = "" THEN fallback ELSE arg

\* stockData before the sort
HotStockData(args, feed) ==
    HotLoop(HotStocksOf(TextOr(args.market, "all"), LimitOr(args.limit, 20)), feed)

\* the handler, for the order `sorted` the sort left
get_hot_stocks(args, feed, sorted) ==
    LET sortBy == TextOr(args.sort_by, "change_rate")
        market == TextOr(args.market, "all")
        limit == LimitOr(args.limit, 20)
    IN  [response   |-> [kind    |-> "hotStocks",
                         isError |-> FALSE,
                         sortBy  |-> sortBy,
                         market  |-> market,
                         items   |-> SliceTo(sorted, limit)],
         accessed   |-> {},
         fieldCount |-> 0,
         fetchLog   |-> HotStocksOf(market, limit)]

(***************************************************************************)
(* case "get_stock_peers" (index.js 724-800)                               *)
(***************************************************************************)
\* the list chosen by the prefix of the code (index.js 747-762)
PeerCodesOf(code) ==
    LET stockCode == SubSeq(code, 3, Len(code))
    IN  IF startsWith(code, <<"s","h">>) /\ startsWith(stockCode, <<"6","0">>)
        THEN PeersShanghai
        ELSE IF startsWith(code, <<"s","z">>) /\ startsWith(stockCode, <<"0","0">>)
        THEN PeersShenzhen
        ELSE IF startsWith(code, <<"s","z">>) /\ startsWith(stockCode, <<"3","0">>)
        THEN PeersChiNext
        ELSE PeersDefault

\* the line of one stock: its PE, PB and market value (index.js 734-737
\* and 776-779)
PeerLine(data) ==
    [name      |-> ToText(At(data, 1)),
     pe        |-> IF Truthy(At(data, 39)) THEN ToText(At(data, 39))
                   ELSE <<"N","/","A">>,
     pb        |-> IF Len(data) > 46 THEN ToText(At(data, 46))
                   ELSE ToText(At(data, 44)),
     marketCap |-> ToText(At(data, 45))]

\* the body of the inner try block for one reply (index.js 770-783)
PeerItemOf(fetched) ==
    IF ~fetched.ok THEN <<>>
    ELSE LET parts == split(fetched.text, <<QUOTE>>)
         IN  IF Len(parts) < 2 THEN <<>>
             ELSE LET peerData == split(parts[2], <<"~">>)
                  IN  IF Len(peerData) > 30 THEN <<PeerLine(peerData)>> ELSE <<>>

PeerItems == [fetched \in Replies |-> PeerItemOf(fetched)]

\* one pass of the loop: the line appended for peerCode
PeerPush(peerCode, fetched) ==
    IF PeerItems[fetched] = <<>> THEN <<>>
    ELSE LET line == PeerItems[fetched][1]
         IN  <<[code |-> peerCode, name |-> line.name, pe |-> line.pe,
                pb |-> line.pb, marketCap |-> line.marketCap]>>

\* the loop from the i-th peer code on; peerCount is the number of lines
RECURSIVE PeerLoop(_, _, _, _, _)
PeerLoop(peerCodes, i, lines, feed, limit) ==
    IF i > Len(peerCodes) \/ Len(lines.items) >= limit THEN lines
    ELSE PeerLoop(peerCodes, i + 1,
                  [items    |-> lines.items
                                   \o PeerPush(peerCodes[i], ReplyTo(feed, peerCodes[i])),
                   fetchLog |-> Append(lines.fetchLog, peerCodes[i])],
                  feed, limit)

\* the reply of the inner catch (index.js 797-799): a text, no isError
PeersFailed ==
    [response   |-> [kind |-> "peersFailed", isError |-> FALSE],
     accessed   |-> {},
     fieldCount |-> 0,
     fetchLog   |-> <<>>]

\* the lookup of the target throws: the fetch fails, or the text has no
\* double quote and undefined.split throws
BasicThrows(basic) == ~basic.ok \/ Len(split(basic.text, <<QUOTE>>)) < 2

\* the reply of the case after the loop (index.js 732-744, 789-796)
PeersReturned(args, basic, lines) ==
    LET basicData == split(split(basic.text, <<QUOTE>>)[2], <<"~">>)
    IN  [response   |-> [kind    |-> "peers",
                         isError |-> FALSE,
                         code    |-> normalizeCode(args.symbol),
                         target  |-> PeerLine(basicData),
                         items   |-> lines.items],
         accessed   |-> {1, 39, 45} \cup
                        (IF Len(basicData) > 46 THEN {46} ELSE {44}),
         fieldCount |-> Len(basicData),
         fetchLog   |-> lines.fetchLog]

get_stock_peers(args, basic, feed) ==
    IF BasicThrows(basic) THEN PeersFailed
    ELSE PeersReturned(args, basic,
                       PeerLoop(PeerCodesOf(normalizeCode(args.symbol)), 1,
                                [items |-> <<>>, fetchLog |-> <<>>],
                                feed, LimitOr(args.limit, 10)))

(***************************************************************************)
(* Replies of the K-line feed (getKLineData): a JSON array of bars, each   *)
(* an object of six texts, or the word null, or a text that is not JSON.   *)
(* Bar i of a series has a close between 1 and 4 that depends on the seed, *)
(* the high one above and the low one below it; `bad` names the bars with  *)
(* a text that is not a number in `field`.                                 *)
(***************************************************************************)
Member(key, value) ==
    <<QUOTE>> \o key \o <<QUOTE, ":", QUOTE>> \o value \o <<QUOTE>>

KeyDay == <<"d","a","y">>

KeyOpen == <<"o","p","e","n">>

KeyHigh == <<"h","i","g","h">>

KeyLow == <<"l","o","w">>

KeyClose == <<"c","l","o","s","e">>

KeyVolume == <<"v","o","l","u","m","e">>

BarClose(i, seed) == 1 + ((i * seed + (i \div 3)) % 4)

BarText(i, seed, bad, field) ==
    LET Price(key, n) == IF i \in bad /\ key = field THEN <<"-">> ELSE Digits(n)
        close == BarClose(i, seed)
    IN  <<"{">> \o join(<<Member(KeyDay, Digits(i)),
                          Member(KeyOpen, Price(KeyOpen, close)),
                          Member(KeyHigh, Price(KeyHigh, close + 1)),
                          Member(KeyLow, Price(KeyLow, close - 1)),
                          Member(KeyClose, Price(KeyClose, close)),
                          Member(KeyVolume, Price(KeyVolume, 8))>>, <<",">>)
            \o <<"}">>

KlineText(n, seed, bad, field) ==
    <<"[">> \o join([i \in 1..n |-> BarText(i, seed, bad, field)], <<",">>)
        \o <<"]">>

NullText == <<"n","u","l","l">>

\* JSON.parse on the replies of the model: null, an array of flat
\* objects of string members, and a SyntaxError for any other text
JSONMember(members, key) ==
    IF \E k \in 1..Len(members) : k % 4 = 2 /\ members[k] = key
    THEN [def |-> TRUE,
          str |-> members[(CHOOSE k \in 1..Len(members) :
                               k % 4 = 2 /\ members[k] = key) + 2]]
    ELSE Undefined

JSONObject(text) ==
    LET members == split(text, <<QUOTE>>)
    IN  [day    |-> JSONMember(members, KeyDay),
         open   |-> JSONMember(members, KeyOpen),
         high   |-> JSONMember(members, KeyHigh),
         low    |-> JSONMember(members, KeyLow),
         close  |-> JSONMember(members, KeyClose),
         volume |-> JSONMember(members, KeyVolume)]

JSONparse(text) ==
    IF text = NullText THEN [ok |-> TRUE, isNull |-> TRUE, items |-> <<>>]
    ELSE IF Len(text) >= 2 /\ text[1] = "[" /\ text[Len(text)] = "]"
    THEN LET inner == SubSeq(text, 2, Len(text) - 1)
             objects == IF inner = <<>> THEN <<>>
                        ELSE split(inner, <<"}", ",", "{">>)
         IN  [ok |-> TRUE, isNull |-> FALSE,
              items |-> [k \in 1..Len(objects) |-> JSONObject(objects[k])]]
    ELSE [ok |-> FALSE, isNull |-> FALSE, items |-> <<>>]

\* the series of up to MaxKlineBars bars, and series with a bar whose
\* close, or whose open, is not a number
KlineTexts ==
    {KlineText(n, seed, {}, KeyClose) : n \in 0..MaxKlineBars, seed \in 1..MaxSeed}
        \cup {KlineText(n, 1, bad, field) :
                 n \in {MaxKlineBars - 1, MaxKlineBars},
                 bad \in {{1}, {MaxKlineBars - 1}},
                 field \in {KeyClose, KeyOpen}}
        \cup {NullText, <<>>, <<"<","h","t","m","l",">">>}

KlineReplies == FetchOutcomes(KlineTexts)

\* JSON.parse on the texts of the model
KlineParsed == [text \in KlineTexts |-> JSONparse(text)]

(***************************************************************************)
(* case "get_stock_technical" (index.js 915-1004)                          *)
(***************************************************************************)
\* args.indicators || "ma,macd,rsi,kdj,boll"
DefaultIndicators ==
    <<"m","a",",","m","a","c","d",",","r","s","i",",","k","d","j",",",
      "b","o","l","l">>

IndicatorsOf(args) ==
    IF args.indicators = <<>> THEN DefaultIndicators ELSE args.indicators

\* klineData.map(item => parseFloat(item[field]))
FloatColumn(klineData, field) ==
    [i \in 1..Len(klineData) |-> parseFloat(ToText(klineData[i][field]))]

\* closePrices.slice(-k).reduce((sum, val) => sum + val, 0) / k
MovingAverage(closePrices, k) == FDiv(Sum(SliceLast(closePrices, k)), Num(k))

\* the labels of the report
RSISignal(rsi) ==
    IF Gt(rsi, Num(70)) THEN "overbought"
    ELSE IF Lt(rsi, Num(30)) THEN "oversold" ELSE "normal"

MACDSignal(macd) == IF Gt(macd, Num(0)) THEN "bull" ELSE "bear"

KDJSignal(j) ==
    IF Gt(j, Num(100)) THEN "overbought"
    ELSE IF Lt(j, Num(0)) THEN "oversold" ELSE "normal"

\* what the report says on one indicator (index.js 953-988)
IndicatorLine(indicator, closePrices, highPrices, lowPrices) ==
    IF indicator = "ma"
    THEN [ma5  |-> MovingAverage(closePrices, 5),
          ma10 |-> MovingAverage(closePrices, 10),
          ma20 |-> MovingAverage(closePrices, 20)]
    ELSE IF indicator = "rsi"
    THEN LET Line(rsi) == [rsi |-> rsi, signal |-> RSISignal(rsi)]
         IN  Line(calculateRSI(closePrices, 14))
    ELSE IF indicator = "macd"
    THEN LET Line(macdData) ==
                 [dif |-> macdData.dif, dea |-> macdData.dea,
                  macd |-> macdData.macd, signal |-> MACDSignal(macdData.macd)]
         IN  Line(calculateMACD(closePrices, 12, 26))
    ELSE IF indicator = "kdj"
    THEN LET Line(kdjData) ==
                 [k |-> kdjData.k, d |-> kdjData.d, j |-> kdjData.j,
                  signal |-> KDJSignal(kdjData.j)]
         IN  Line(calculateKDJ(highPrices, lowPrices, closePrices, 9))
    ELSE LET Line(bollData) ==
                 [upper |-> bollData.upper, middle |-> bollData.middle,
                  lower |-> bollData.lower]
         IN  Line(calculateBOLL(closePrices, 20, 2))

IndicatorNames == {"ma", "rsi", "macd", "kdj", "boll"}

\* the text of an indicator name
NameText(indicator) ==
    IF indicator = "ma" THEN <<"m","a">>
    ELSE IF indicator = "rsi" THEN <<"r","s","i">>
    ELSE IF indicator = "macd" THEN <<"m","a","c","d">>
    ELSE IF indicator = "kdj" THEN <<"k","d","j">>
    ELSE <<"b","o","l","l">>

\* the reply of the catch of the case (index.js 1001-1003): a text, no
\* isError
TechnicalFailed(reason) ==
    [response   |-> [kind |-> "technicalFailed", isError |-> FALSE,
                     reason |-> reason],
     accessed   |-> {},
     fieldCount |-> 0]

get_stock_technical(args, basic, kline) ==
    IF ~basic.ok THEN TechnicalFailed("fetch")
    ELSE IF Len(split(basic.text, <<QUOTE>>)) < 2 THEN TechnicalFailed("TypeError")
    ELSE IF ~kline.ok THEN TechnicalFailed("fetch")
    ELSE IF ~KlineParsed[kline.text].ok THEN TechnicalFailed("SyntaxError")
    ELSE LET basicData == split(split(basic.text, <<QUOTE>>)[2], <<"~">>)
             klineData == KlineParsed[kline.text].items
             closePrices == FloatColumn(klineData, "close")
             highPrices == FloatColumn(klineData, "high")
             lowPrices == FloatColumn(klineData, "low")
             indicators == IndicatorsOf(args)
         IN  IF KlineParsed[kline.text].isNull \/ ~(Len(klineData) > 20)
             THEN TechnicalFailed("insufficient")
             ELSE Returned(
                    [kind         |-> "technical",
                     isError      |-> FALSE,
                     code         |-> normalizeCode(args.symbol),
                     name         |-> ToText(At(basicData, 1)),
                     currentPrice |-> ToText(At(basicData, 3)),
                     report       |->
                         [indicator \in {i \in IndicatorNames :
                                            includes(indicators, NameText(i))} |->
                             IndicatorLine(indicator, closePrices, highPrices,
                                           lowPrices)]],
                    {1, 3}, basicData)

(***************************************************************************)
(* case "get_stock_history" (index.js 625-667) and case "get_stock_kline"  *)
(* (index.js 669-722): the K-line reply is fetched first, then the         *)
(* snapshot for the name; the last five bars are listed, newest first.     *)
(* Whatever is thrown inside is caught by the case itself, which returns   *)
(* a text without isError.  The lines of the text that only echo the       *)
(* arguments (dates, type) are left out.                                   *)
(***************************************************************************)
\* arr.reverse()
reverse(arr) == [i \in 1..Len(arr) |-> arr[Len(arr) - i + 1]]

\* parseFloat(x.toFixed(2)): the hundredth nearest to x, the farther from
\* zero of two; NaN and the infinities print and parse as themselves
toFixed2(x) ==
    IF x.d = 0 THEN x
    ELSE Norm(Sign(x.n) * ((Abs(x.n) * 200 + x.d) \div (2 * x.d)), 100)

\* what both cases do up to JSON.parse and data.slice: "" when nothing is
\* thrown, else what is thrown
BarsThrow(kline, basic) ==
    IF ~kline.ok THEN "fetch"
    ELSE IF ~basic.ok THEN "fetch"
    ELSE IF Len(split(basic.text, <<QUOTE>>)) < 2 THEN "TypeError"
    ELSE IF ~KlineParsed[kline.text].ok THEN "SyntaxError"
    ELSE IF KlineParsed[kline.text].isNull THEN "TypeError"
    ELSE IF \E i \in 1..Len(KlineParsed[kline.text].items) :
                ~KlineParsed[kline.text].items[i].day.def
    THEN "TypeError"                                 \* undefined.split
    ELSE ""

\* data.slice(-5).reverse()
RecentData(kline) == reverse(SliceLast(KlineParsed[kline.text].items, 5))

HistoryRow(item) ==
    [date   |-> split(item.day.str, <<" ">>)[1],
     open   |-> ToText(item.open),
     high   |-> ToText(item.high),
     low    |-> ToText(item.low),
     close  |-> ToText(item.close),
     volume |-> ToText(item.volume)]

\* the catch of the case (index.js 664-666)
HistoryFailed(reason) ==
    [response   |-> [kind |-> "historyFailed", isError |-> FALSE,
                     reason |-> reason],
     accessed   |-> {},
     fieldCount |-> 0]

get_stock_history(args, kline, basic) ==
    IF BarsThrow(kline, basic) # "" THEN HistoryFailed(BarsThrow(kline, basic))
    ELSE LET basicData == split(split(basic.text, <<QUOTE>>)[2], <<"~">>)
             recentData == RecentData(kline)
         IN  Returned([kind    |-> "history",
                       isError |-> FALSE,
                       code    |-> normalizeCode(args.symbol),
                       name    |-> ToText(At(basicData, 1)),
                       rows    |-> [i \in 1..Len(recentData) |->
                                       HistoryRow(recentData[i])]],
                      {1}, basicData)

\* the change of row `index` (counted from 0) against the bar before it
KlineChange(recentData, index) ==
    IF index < Len(recentData) - 1
    THEN LET close == parseFloat(ToText(recentData[index + 1].close))
             before == parseFloat(ToText(recentData[index + 2].close))
         IN  toFixed2(FMul(FDiv(FSub(close, before), before), Num(100)))
    ELSE Num(0)

KlineRow(recentData, index) ==
    LET item == recentData[index + 1]
        change == KlineChange(recentData, index)
    IN  [date   |-> split(item.day.str, <<" ">>)[1],
         open   |-> ToText(item.open),
         high   |-> ToText(item.high),
         low    |-> ToText(item.low),
         close  |-> ToText(item.close),
         volume |-> ToText(item.volume),
         change |-> change,
         changeIcon |-> IF Gt(change, Num(0)) THEN "red" ELSE "green"]

\* the catch of the case (index.js 719-721)
KlineFailed(reason) ==
    [response   |-> [kind |-> "klineFailed", isError |-> FALSE,
                     reason |-> reason],
     accessed   |-> {},
     fieldCount |-> 0]

get_stock_kline(args, kline, basic) ==
    IF BarsThrow(kline, basic) # "" THEN KlineFailed(BarsThrow(kline, basic))
    ELSE LET basicData == split(split(basic.text, <<QUOTE>>)[2], <<"~">>)
             recentData == RecentData(kline)
         IN  Returned([kind    |-> "kline",
                       isError |-> FALSE,
                       code    |-> normalizeCode(args.symbol),
                       name    |-> ToText(At(basicData, 1)),
                       count   |-> Len(KlineParsed[kline.text].items),
                       rows    |-> [i \in 1..Len(recentData) |->
                                       KlineRow(recentData, i - 1)]],
                      {1}, basicData)

(***************************************************************************)
(* case "get_stock_news" (index.js 553-623).  The news reply is one quoted *)
(* payload of fields joined by "~", seven fields to an entry: title, time, *)
(* content and four more.  The four keywords of the filter are written     *)
(* here with one Latin capital for each of their characters.  The time is  *)
(* kept as the text of the field (the code prints it with Date).           *)
(***************************************************************************)
Keywords == {<<"A","G">>, <<"G","S">>, <<"Z","Q">>, <<"J","R">>}

\* String.prototype.trim, for texts whose only white space is the blank
trim(s) ==
    LET inked == {i \in 1..Len(s) : s[i] # " "}
    IN  IF inked = {} THEN <<>>
        ELSE SubSeq(s, CHOOSE i \in inked : \A j \in inked : i <= j,
                       CHOOSE i \in inked : \A j \in inked : i >= j)

\* the test on a title: of the first loop when `related`, of the second
\* loop otherwise
TitleWanted(title, related) ==
    /\ title # <<>>
    /\ IF related THEN \E word \in Keywords : includes(title, word)
       ELSE trim(title) # <<>>

\* either loop from index i on: at most `most` entries are listed
RECURSIVE NewsScan(_, _, _, _, _)
NewsScan(newsData, i, listed, most, related) ==
    IF ~(i < Len(newsData) - 1 /\ Len(listed) < most) THEN listed
    ELSE IF i + 6 < Len(newsData) /\ TitleWanted(newsData[i + 1], related)
    THEN NewsScan(newsData, i + 7,
                  Append(listed, [title |-> newsData[i + 1],
                                  time  |-> newsData[i + 2]]),
                  most, related)
    ELSE NewsScan(newsData, i + 7, listed, most, related)

\* the catch of the case (index.js 620-622)
NewsFailed(reason) ==
    [response   |-> [kind |-> "newsFailed", isError |-> FALSE,
                     reason |-> reason],
     accessed   |-> {},
     fieldCount |-> 0]

get_stock_news(args, basic, news) ==
    IF ~basic.ok THEN NewsFailed("fetch")
    ELSE IF Len(split(basic.text, <<QUOTE>>)) < 2 THEN NewsFailed("TypeError")
    ELSE IF ~news.ok THEN NewsFailed("fetch")
    ELSE IF Len(split(news.text, <<QUOTE>>)) < 2 THEN NewsFailed("TypeError")
    ELSE LET basicData == split(split(basic.text, <<QUOTE>>)[2], <<"~">>)
             newsData == split(split(news.text, <<QUOTE>>)[2], <<"~">>)
             limit == LimitOr(args.limit, 10)
             related == NewsScan(newsData, 0, <<>>, limit, TRUE)
         IN  Returned([kind    |-> "news",
                       isError |-> FALSE,
                       code    |-> normalizeCode(args.symbol),
                       name    |-> ToText(At(basicData, 1)),
                       related |-> related,
                       recent  |-> IF Len(related) = 0
                                   THEN NewsScan(newsData, 0, <<>>, 3, FALSE)
                                   ELSE <<>>],
                      {1}, basicData)

\* the replies of the news feed: entries with and without a keyword in
\* the title, with a blank and with an empty title, and a cut-off entry
NewsEntry(title, time) == <<title, Digits(time), <<"c">>, <<>>, <<>>, <<>>, <<>>>>

NewsText(fields) == <<"v", "=", QUOTE>> \o join(fields, <<"~">>) \o <<QUOTE, ";">>

TitleRelated == <<"A","G","u","p">>

TitleOther == <<"o","i","l">>

NewsTexts ==
    UnquotedTexts
        \cup {NewsText(<<>>),
              NewsText(NewsEntry(TitleRelated, 1)),
              NewsText(NewsEntry(TitleOther, 1) \o NewsEntry(<<"Z","Q">>, 2)
                           \o NewsEntry(<<"J","R","!">>, 3)),
              NewsText(NewsEntry(TitleOther, 1) \o NewsEntry(<<" ">>, 2)
                           \o NewsEntry(<<>>, 3) \o NewsEntry(TitleOther, 4)
                           \o NewsEntry(<<" ","x"," ">>, 5)
                           \o NewsEntry(TitleOther, 6)),
              NewsText(NewsEntry(TitleOther, 1) \o <<TitleRelated, <<"2">>>>)}

(***************************************************************************)
(* The tools the server lists (index.js 228-431) and the cases of the      *)
(* switch of the CallTool handler (index.js 443-1008); any other name      *)
(* reaches the default case, which throws into the outer catch.            *)
(***************************************************************************)
ListedTools ==
    {"get_market_overview", "get_stock_price", "get_stock_fundamentals",
     "get_trading_depth", "get_stock_news", "get_stock_history",
     "get_stock_kline", "get_stock_peers", "get_hot_stocks",
     "get_stock_technical"}

DispatcherCases ==
    {"get_market_overview", "get_stock_price", "get_stock_fundamentals",
     "get_trading_depth", "get_stock_news", "get_stock_history",
     "get_stock_kline", "get_stock_peers", "get_hot_stocks",
     "get_stock_technical"}

\* names that are no case of the switch
OtherNames == {"get_stock_quote", "get_hot_stock", ""}

\* default: throw new Error(...)
tool_not_found(name) == Caught("notFound")

(***************************************************************************)
(* State machine.                                                          *)
(***************************************************************************)
NoRequest == [name |-> "none"]

NoUpstream == [ok |-> FALSE, text |-> <<>>]

NoResponse == [kind |-> "none"]

Init ==
    /\ pc = "idle"
    /\ request = NoRequest
    /\ upstream = NoUpstream
    /\ response = NoResponse
    /\ accessed = {}
    /\ fieldCount = 0
    /\ fetchLog = <<>>
    /\ inFlight = <<>>
    /\ queue = <<>>
    /\ collected = <<>>

\* a call of normalizeCode on a string
NormalizeCode ==
    /\ pc = "idle"
    /\ \E symbol \in Symbols :
         /\ request' = [name |-> "normalizeCode", symbol |-> symbol]
         /\ response' = [kind |-> "value", value |-> normalizeCode(symbol)]
    /\ pc' = "done"
    /\ UNCHANGED <<upstream, accessed, fieldCount, fetchLog, loopVars>>

\* a handler has run to its return: its response and what it read
Handled(req, fetched, result) ==
    /\ request' = req
    /\ upstream' = fetched
    /\ response' = result.response
    /\ accessed' = result.accessed
    /\ fieldCount' = result.fieldCount
    /\ fetchLog' = <<>>
    /\ pc' = "done"
    /\ UNCHANGED loopVars

\* a multi-instrument handler has run to its return: its response and the
\* codes it fetched from the feed, in order
Aggregated(req, fed, result) ==
    /\ request' = req
    /\ upstream' = fed
    /\ response' = result.response
    /\ accessed' = result.accessed
    /\ fieldCount' = result.fieldCount
    /\ fetchLog' = result.fetchLog
    /\ pc' = "done"
    /\ UNCHANGED loopVars

GetStockPrice ==
    /\ pc = "idle"
    /\ \E symbol \in SnapSymbols, fetched \in FetchOutcomes(SnapshotTexts) :
         Handled([name |-> "get_stock_price", symbol |-> symbol], fetched,
                 get_stock_price(symbol, fetched))

GetStockFundamentals ==
    /\ pc = "idle"
    /\ \E symbol \in SnapSymbols, fetched \in FetchOutcomes(SnapshotTexts) :
         Handled([name |-> "get_stock_fundamentals", symbol |-> symbol], fetched,
                 get_stock_fundamentals(symbol, fetched))

GetTradingDepth ==
    /\ pc = "idle"
    /\ \E symbol \in SnapSymbols, fetched \in FetchOutcomes(DepthTexts) :
         Handled([name |-> "get_trading_depth", symbol |-> symbol], fetched,
                 get_trading_depth(symbol, fetched))

GetMarketOverview ==
    /\ pc = "idle"
    /\ \E fetched \in FetchOutcomes(IndexTexts) :
         Handled([name |-> "get_market_overview"], fetched,
                 get_market_overview(fetched))

\* the arguments of get_hot_stocks: "" stands for a missing text argument
Markets == {"", "all", "sh", "sz", "cy", "kc"}

SortKeys == {"", "change_rate", "volume", "turnover"}

HotLimits == {NoArg, Arg(-1), Arg(0), Arg(1), Arg(3), Arg(7), Arg(30)}

\* limits that leave few enough records for every order to be tried
FewLimits == {Arg(1), Arg(2), Arg(3)}

HotCalls ==
    [market : Markets, sort_by : SortKeys, limit : HotLimits,
     pattern : NumericPatterns]
        \cup [market : Markets, sort_by : SortKeys, limit : FewLimits,
              pattern : BlankPatterns]

GetHotStocks ==
    /\ pc = "idle"
    /\ \E call \in HotCalls :
         LET args == [market |-> call.market, sort_by |-> call.sort_by,
                      limit |-> call.limit]
             feed == FeedOf(call.pattern)
         IN  \E sorted \in SortOutcomes(HotStockData(args, feed),
                                        TextOr(args.sort_by, "change_rate")) :
                 Aggregated([name |-> "get_hot_stocks", args |-> args],
                            [feed |-> feed],
                            get_hot_stocks(args, feed, sorted))

\* the arguments of get_stock_peers
PeerSymbols ==
    {<<"6","0","0">>, <<"0","0","1">>, <<"3","0","0">>, <<"0","0","2">>,
     <<"s","h","0","0">>}

PeerLimits == {NoArg, Arg(-1), Arg(0), Arg(1), Arg(3), Arg(30)}

BasicReplies == {ReplyFailed, ReplyPage, Reply30, ReplyLow}

GetStockPeers ==
    /\ pc = "idle"
    /\ \E symbol \in PeerSymbols, limit \in PeerLimits, basic \in BasicReplies,
          pattern \in NumericPatterns \cup BlankPatterns :
         LET args == [symbol |-> symbol, limit |-> limit]
             feed == FeedOf(pattern)
         IN  Aggregated([name |-> "get_stock_peers", args |-> args],
                        [basic |-> basic, feed |-> feed],
                        get_stock_peers(args, basic, feed))

\* the arguments of get_stock_technical: <<>> stands for a missing
\* indicators argument
IndicatorArgs ==
    {<<>>, <<"r","s","i">>, <<"m","a","c","d">>, <<"k","d","j",",","b","o","l","l">>}

GetStockTechnical ==
    /\ pc = "idle"
    /\ \E symbol \in {<<"6","0","0">>}, indicators \in IndicatorArgs,
          basic \in {ReplyFailed, ReplyPage, ReplyLow}, kline \in KlineReplies :
         LET args == [symbol |-> symbol, indicators |-> indicators]
         IN  Handled([name |-> "get_stock_technical", args |-> args],
                     [basic |-> basic, kline |-> kline],
                     get_stock_technical(args, basic, kline))

\* the arguments of get_stock_news
NewsLimits == {NoArg, Arg(0), Arg(1), Arg(2), Arg(-1)}

GetStockNews ==
    /\ pc = "idle"
    /\ \E limit \in NewsLimits, basic \in {ReplyFailed, ReplyPage, ReplyLow},
          news \in FetchOutcomes(NewsTexts) :
         LET args == [symbol |-> <<"6","0","0">>, limit |-> limit]
         IN  Handled([name |-> "get_stock_news", args |-> args],
                     [basic |-> basic, news |-> news],
                     get_stock_news(args, basic, news))

GetStockHistory ==
    /\ pc = "idle"
    /\ \E basic \in {ReplyFailed, ReplyPage, ReplyLow}, kline \in KlineReplies :
         LET args == [symbol |-> <<"6","0","0">>]
         IN  Handled([name |-> "get_stock_history", args |-> args],
                     [basic |-> basic, kline |-> kline],
                     get_stock_history(args, kline, basic))

GetStockKline ==
    /\ pc = "idle"
    /\ \E basic \in {ReplyFailed, ReplyPage, ReplyLow}, kline \in KlineReplies :
         LET args == [symbol |-> <<"6","0","0">>]
         IN  Handled([name |-> "get_stock_kline", args |-> args],
                     [basic |-> basic, kline |-> kline],
                     get_stock_kline(args, kline, basic))

\* a call with a name that is no case of the switch
ToolNotFound ==
    /\ pc = "idle"
    /\ \E name \in OtherNames :
         Handled([name |-> name], NoUpstream, tool_not_found(name))

\* a call of an indicator function
Computed(req, result) ==
    /\ request' = req
    /\ response' = result
    /\ pc' = "done"
    /\ UNCHANGED <<upstream, accessed, fieldCount, fetchLog, loopVars>>

CalculateRSI ==
    /\ pc = "idle"
    /\ \E prices \in CloseHistories, period \in Periods :
         Computed([name |-> "calculateRSI", prices |-> prices, period |-> period],
                  [kind |-> "rsi", value |-> calculateRSI(prices, period)])

\* the fast period is not above the slow one, as with the 12 and 26 of the
\* code
CalculateMACD ==
    /\ pc = "idle"
    /\ \E prices \in CloseHistories, slowPeriod \in Periods :
       \E fastPeriod \in 1..slowPeriod :
         Computed([name |-> "calculateMACD", prices |-> prices,
                   fastPeriod |-> fastPeriod, slowPeriod |-> slowPeriod],
                  [kind |-> "macd",
                   value |-> calculateMACD(prices, fastPeriod, slowPeriod)])

CalculateKDJ ==
    /\ pc = "idle"
    /\ \E bars \in BarHistories, period \in Periods :
         Computed([name |-> "calculateKDJ", bars |-> bars, period |-> period],
                  [kind |-> "kdj",
                   value |-> calculateKDJ(Column(bars, "high"), Column(bars, "low"),
                                          Column(bars, "close"), period)])

CalculateBOLL ==
    /\ pc = "idle"
    /\ \E prices \in CloseHistories, period \in Periods, multiplier \in {2} :
         Computed([name |-> "calculateBOLL", prices |-> prices,
                   period |-> period, multiplier |-> multiplier],
                  [kind |-> "boll",
                   value |-> calculateBOLL(prices, period, multiplier)])

\* the response has been returned; the server waits for the next request
NextRequest ==
    /\ pc = "done"
    /\ pc' = "idle"
    /\ request' = NoRequest
    /\ upstream' = NoUpstream
    /\ response' = NoResponse
    /\ accessed' = {}
    /\ fieldCount' = 0
    /\ fetchLog' = <<>>
    /\ inFlight' = <<>>
    /\ queue' = <<>>
    /\ collected' = <<>>

Next ==
    \/ NormalizeCode
    \/ GetStockPrice
    \/ GetStockFundamentals
    \/ GetTradingDepth
    \/ GetMarketOverview
    \/ GetHotStocks
    \/ GetStockPeers
    \/ GetStockTechnical
    \/ GetStockNews
    \/ GetStockHistory
    \/ GetStockKline
    \/ ToolNotFound
    \/ CalculateRSI
    \/ CalculateMACD
    \/ CalculateKDJ
    \/ CalculateBOLL
    \/ NextRequest

Spec == Init /\ [][Next]_vars

(***************************************************************************)
(* The fetch loops of get_hot_stocks and get_stock_peers, one await at a   *)
(* time: pc is "basic" while the lookup of the target of get_stock_peers  *)
(* is awaited, "looping" at the head of the for loop and "awaiting" while  *)
(* the fetch of a code is awaited; inFlight holds the codes whose fetch    *)
(* has been started and has not settled, queue the codes the loop has not  *)
(* reached, collected the records pushed so far.                           *)
(***************************************************************************)
LoopPatterns ==
    {<<ReplyLow, ReplyFailed, ReplyHigh>>,
     <<ReplyHigh, ReplyPage, ReplyLow, Reply30, ReplyLow, ReplyFailed, ReplyHigh>>,
     <<ReplyFailed>>}

LoopLimits == {NoArg, Arg(-1), Arg(3)}

\* get_hot_stocks up to the for loop (index.js 803-860)
StartHotStocks ==
    /\ pc = "idle"
    /\ \E market \in Markets, limit \in LoopLimits, pattern \in LoopPatterns :
         LET args == [market |-> market, sort_by |-> "volume", limit |-> limit]
         IN  /\ request' = [name |-> "get_hot_stocks", args |-> args]
             /\ upstream' = [feed |-> FeedOf(pattern)]
             /\ queue' = HotStocksOf(TextOr(market, "all"), LimitOr(limit, 20))
    /\ pc' = "looping"
    /\ UNCHANGED <<response, accessed, fieldCount, fetchLog, inFlight, collected>>

\* get_stock_peers up to the await of the target's lookup (index.js 725-731)
StartStockPeers ==
    /\ pc = "idle"
    /\ \E symbol \in PeerSymbols, limit \in LoopLimits,
          basic \in {ReplyFailed, ReplyLow}, pattern \in LoopPatterns :
         /\ request' = [name |-> "get_stock_peers",
                        args |-> [symbol |-> symbol, limit |-> limit]]
         /\ upstream' = [basic |-> basic, feed |-> FeedOf(pattern)]
         /\ inFlight' = <<normalizeCode(symbol)>>
    /\ pc' = "basic"
    /\ UNCHANGED <<response, accessed, fieldCount, fetchLog, queue, collected>>

\* the lookup of the target threw: the catch of the case replies
BasicRejected ==
    /\ pc = "basic"
    /\ BasicThrows(upstream.basic)
    /\ response' = PeersFailed.response
    /\ inFlight' = <<>>
    /\ pc' = "done"
    /\ UNCHANGED <<request, upstream, accessed, fieldCount, fetchLog, queue, collected>>

\* the lookup of the target returned: the peer list is chosen (732-764)
BasicResolved ==
    /\ pc = "basic"
    /\ ~BasicThrows(upstream.basic)
    /\ queue' = PeerCodesOf(normalizeCode(request.args.symbol))
    /\ inFlight' = <<>>
    /\ pc' = "looping"
    /\ UNCHANGED <<request, upstream, response, accessed, fieldCount, fetchLog,
                   collected>>

\* the for loop goes on: get_stock_peers breaks when peerCount has
\* reached the limit (index.js 767)
LoopGoesOn ==
    /\ queue # <<>>
    /\ request.name = "get_stock_peers" =>
          Len(collected) < LimitOr(request.args.limit, 10)

\* the loop starts the fetch of the next code and awaits it (769-771,
\* 862-864)
DispatchFetch ==
    /\ pc = "looping"
    /\ LoopGoesOn
    /\ inFlight' = Append(inFlight, Head(queue))
    /\ fetchLog' = Append(fetchLog, Head(queue))
    /\ queue' = Tail(queue)
    /\ pc' = "awaiting"
    /\ UNCHANGED <<request, upstream, response, accessed, fieldCount, collected>>

\* what the try block pushes for a reply
Pushed(code, fetched) ==
    IF request.name = "get_hot_stocks" THEN HotPush(code, fetched)
    ELSE PeerPush(code, fetched)

\* faulty variant: a fetch that throws ends the loop
RejectFetch_abort ==
    /\ pc = "awaiting"
    /\ ~ReplyTo(upstream.feed, Head(inFlight)).ok
    /\ inFlight' = Tail(inFlight)
    /\ queue' = <<>>
    /\ pc' = "looping"
    /\ UNCHANGED <<request, upstream, response, accessed, fieldCount, fetchLog,
                   collected>>

\* the awaited fetch throws: the catch of the loop body ignores it
\* (index.js 784-786, 884-886)
RejectFetch ==
    /\ pc = "awaiting"
    /\ ~ReplyTo(upstream.feed, Head(inFlight)).ok
    /\ inFlight' = Tail(inFlight)
    /\ pc' = "looping"
    /\ UNCHANGED <<request, upstream, response, accessed, fieldCount, fetchLog,
                   queue, collected>>

\* the awaited fetch returns a text: the rest of the try block
ResolveFetch ==
    /\ pc = "awaiting"
    /\ ReplyTo(upstream.feed, Head(inFlight)).ok
    /\ collected' = collected
                       \o Pushed(Head(inFlight), ReplyTo(upstream.feed, Head(inFlight)))
    /\ inFlight' = Tail(inFlight)
    /\ pc' = "looping"
    /\ UNCHANGED <<request, upstream, response, accessed, fieldCount, fetchLog,
                   queue>>

\* after the loop: sort, cut and reply (index.js 789-796, 890-909)
FinishLoop ==
    /\ pc = "looping"
    /\ ~LoopGoesOn
    /\ IF request.name = "get_hot_stocks"
       THEN \E sorted \in SortOutcomes(collected,
                                       TextOr(request.args.sort_by, "change_rate")) :
               response' = get_hot_stocks(request.args, upstream.feed, sorted).response
       ELSE response' =
               PeersReturned(request.args, upstream.basic,
                             [items |-> collected, fetchLog |-> fetchLog]).response
    /\ pc' = "done"
    /\ UNCHANGED <<request, upstream, accessed, fieldCount, fetchLog, loopVars>>

FetchNext ==
    \/ StartHotStocks
    \/ StartStockPeers
    \/ BasicRejected
    \/ BasicResolved
    \/ DispatchFetch
    \/ RejectFetch
    \/ ResolveFetch
    \/ FinishLoop
    \/ NextRequest

FetchSpec == Init /\ [][FetchNext]_vars

(***************************************************************************)
(* C1: normalizeCode maps every string s to s itself when s starts with    *)
(* lower-case "sh" or "sz", to "sh" followed by s when the first character *)
(* of s is "5" or "6", and to "sz" followed by s otherwise (the empty      *)
(* string and upper-case prefixes included); the result is always a        *)
(* string, never an error.                                                 *)
(***************************************************************************)
IsLowerPrefixed(s) ==
    Len(s) >= 2 /\ s[1] = "s" /\ (s[2] = "h" \/ s[2] = "z")

C1_Expected(s) ==
    IF IsLowerPrefixed(s) THEN s
    ELSE IF Len(s) >= 1 /\ s[1] \in {"5", "6"}
         THEN <<"s","h">> \o s
         ELSE <<"s","z">> \o s

C1_NormalizeMapping ==
    (pc = "done" /\ request.name = "normalizeCode")
        => /\ response.kind = "value"
           /\ response.value \in Seq(SymbolChars)
           /\ response.value = C1_Expected(request.symbol)

\* an upper-case prefix is not recognised and gets the "sz" prefix
C1_Witness ==
    /\ pc = "done"
    /\ request.name = "normalizeCode"
    /\ request.symbol = <<"S","h","6">>
    /\ response.value = <<"s","z","S","h","6">>

(***************************************************************************)
(* C2: normalizeCode is idempotent: applying it to its own result returns  *)
(* that result unchanged.                                                  *)
(***************************************************************************)
C2_Idempotent ==
    (pc = "done" /\ request.name = "normalizeCode")
        => normalizeCode(response.value) = response.value

\* a bare ticker was prefixed by the first application
C2_Witness ==
    /\ pc = "done"
    /\ request.name = "normalizeCode"
    /\ request.symbol = <<"6","0","0">>
    /\ response.value = <<"s","h","6","0","0">>

(***************************************************************************)
(* The payload of a fetched text as the claims speak of it: the first      *)
(* double-quoted segment, and its fields.                                  *)
(***************************************************************************)
HasPayload(text) == Len(split(text, <<QUOTE>>)) >= 2

PayloadOf(text) == split(text, <<QUOTE>>)[2]

TildeFields(text) == split(PayloadOf(text), <<"~">>)

CommaFields(text) == split(PayloadOf(text), <<",">>)

HandledSnapshot(tool) ==
    /\ pc = "done"
    /\ request.name = tool
    /\ upstream.ok
    /\ HasPayload(upstream.text)

(***************************************************************************)
(* C3: in get_stock_price a payload of fewer than 30 tilde-separated       *)
(* fields yields the not-found response and never a price report; a        *)
(* payload of 30 or more fields yields a report whose name is field 1,     *)
(* last price field 3, change amount field 31 and change percent field 32  *)
(* of the payload.                                                         *)
(***************************************************************************)
C3_PriceDecode ==
    HandledSnapshot("get_stock_price") =>
        LET data == TildeFields(upstream.text)
        IN  IF Len(data) < 30 THEN response.kind = "notFound"
            ELSE /\ response.kind = "price"
                 /\ response.name = data[2]
                 /\ response.price = data[4]
                 /\ Len(data) > 32
                 /\ response.changeAmount = data[32]
                 /\ response.changePercent = data[33]

(***************************************************************************)
(* C4: no snapshot decode reads a positional field at an index greater     *)
(* than or equal to the number of fields of the payload: every indexed     *)
(* read comes after a length guard that makes the index exist, and no      *)
(* report carries the text of an undefined field.                          *)
(***************************************************************************)
C4_NoOutOfRangeRead ==
    (pc = "done" /\ request.name \in {"get_stock_price", "get_stock_fundamentals"})
        => \A i \in accessed : i < fieldCount

(***************************************************************************)
(* C5: in get_stock_fundamentals a payload of fewer than 45 fields yields  *)
(* the unavailable response; with 45 or more fields PE, PB and market cap  *)
(* are all populated with a value present in the payload: PE is field 39   *)
(* ("N/A" when it is blank), PB is field 46 when there are more than 46    *)
(* fields and field 44 otherwise, market cap is field 45.                  *)
(***************************************************************************)
C5_Fundamentals ==
    HandledSnapshot("get_stock_fundamentals") =>
        LET data == TildeFields(upstream.text)
        IN  IF Len(data) < 45 THEN response.kind = "unavailable"
            ELSE /\ response.kind = "fundamentals"
                 /\ response.pe = (IF data[40] = <<>> THEN <<"N","/","A">>
                                   ELSE data[40])
                 /\ response.pb = (IF Len(data) > 46 THEN data[47] ELSE data[45])
                 /\ Len(data) > 45
                 /\ response.mktCap = data[46]

(***************************************************************************)
(* C6: every ladder volume reported by get_trading_depth is a non-negative *)
(* integer, floor(raw share count / 100) of its raw field, for every       *)
(* payload that passes the decode guard, also when the raw field is        *)
(* missing, blank or not a number.                                         *)
(***************************************************************************)
IsDigitString(str) == Len(str) > 0 /\ \A k \in 1..Len(str) : IsDigit(str[k])

\* the field holding the share count of a level
AskVolumeIdx(level) == 18 + 2 * level

BidVolumeIdx(level) == 8 + 2 * level

C6_VolumeOk(data, idx, volume) ==
    /\ volume.d = 1
    /\ volume.n >= 0
    /\ (idx < Len(data) /\ IsDigitString(data[idx + 1]))
           => volume.n = DecimalValue(data[idx + 1], 1, Len(data[idx + 1])) \div 100

C6_LadderVolumes ==
    (HandledSnapshot("get_trading_depth") /\ response.kind = "depth") =>
        LET data == CommaFields(upstream.text)
        IN  /\ \A k \in 1..Len(response.asks) :
                 C6_VolumeOk(data, AskVolumeIdx(response.asks[k].level),
                             response.asks[k].volume)
            /\ \A k \in 1..Len(response.bids) :
                 C6_VolumeOk(data, BidVolumeIdx(response.bids[k].level),
                             response.bids[k].volume)

(***************************************************************************)
(* C7: for a well-formed order-book payload get_trading_depth reports the  *)
(* full five-level ladder on both sides: ask levels 1 to 5 and bid levels  *)
(* 1 to 5, each with its price and its lot volume, every level once.       *)
(***************************************************************************)
WellFormedBook(data) ==
    /\ Len(data) >= 30
    /\ \A i \in VolumeIdx : IsDigitString(data[i + 1])

LevelsOf(side) == {side[k].level : k \in 1..Len(side)}

C7_FullLadder ==
    (HandledSnapshot("get_trading_depth") /\ WellFormedBook(CommaFields(upstream.text)))
        => /\ response.kind = "depth"
           /\ Len(response.asks) = 5 /\ LevelsOf(response.asks) = 1..5
           /\ Len(response.bids) = 5 /\ LevelsOf(response.bids) = 1..5

(***************************************************************************)
(* C8: index-snapshot decoding never fails on the content of the fetched   *)
(* text: whatever the lines are (shorter than 10 characters, unknown key,  *)
(* no "=", no "str_" marker, no double-quoted payload) the decode          *)
(* completes with a list of quotes, possibly empty, and raises nothing.    *)
(***************************************************************************)
HandledOverview ==
    /\ pc = "done"
    /\ request.name = "get_market_overview"
    /\ upstream.ok

C8_OverviewNeverFails ==
    HandledOverview => (response.kind = "overview" /\ ~response.isError)

(***************************************************************************)
(* C9: index-snapshot decoding emits, in input line order, exactly one     *)
(* quote per line whose assignment key (the text between "str_" and "=")   *)
(* is in the key table, with the display name of the table, price the      *)
(* comma-field 1 and change percent the comma-field 3 of the line's quoted *)
(* payload; no other line yields a quote.                                  *)
(***************************************************************************)
KeyTable == {KeyShanghai, KeyShenzhen, KeyChiNext}

DisplayName(key) ==
    IF key = KeyShanghai THEN NameShanghai
    ELSE IF key = KeyShenzhen THEN NameShenzhen
    ELSE NameChiNext

\* the assignment key of a line, <<>> when the line has none
C9_KeyOf(line) ==
    IF ~includes(line, <<"=">>) THEN <<>>
    ELSE LET parts == split(split(line, <<"=">>)[1], <<"s","t","r","_">>)
         IN  IF Len(parts) < 2 THEN <<>> ELSE parts[2]

C9_QuoteOf(line) ==
    LET data == IF HasPayload(line) THEN CommaFields(line) ELSE <<>>
    IN  [name      |-> DisplayName(C9_KeyOf(line)),
         price     |-> ToText(At(data, 1)),
         changePct |-> ToText(At(data, 3))]

RECURSIVE C9_Expected(_)
C9_Expected(lines) ==
    IF lines = <<>> THEN <<>>
    ELSE IF C9_KeyOf(Head(lines)) \in KeyTable
         THEN <<C9_QuoteOf(Head(lines))>> \o C9_Expected(Tail(lines))
         ELSE C9_Expected(Tail(lines))

C9_OverviewQuotes ==
    HandledOverview =>
        /\ response.kind = "overview"
        /\ response.quotes = C9_Expected(split(upstream.text, <<NEWLINE>>))

(***************************************************************************)
(* C10: with a history shorter than its window every indicator function    *)
(* returns its sentinel exactly and raises nothing: calculateRSI 50 for    *)
(* fewer than period + 1 closes, calculateMACD {0, 0, 0} for fewer than    *)
(* slowPeriod closes, calculateKDJ {50, 50, 50} for fewer than period      *)
(* highs, calculateBOLL {0, 0, 0} for fewer than period closes, the empty  *)
(* history included.                                                       *)
(***************************************************************************)
C10_Sentinels ==
    pc = "done" =>
        /\ (request.name = "calculateRSI" /\ Len(request.prices) < request.period + 1)
              => response.value = [n |-> 50, d |-> 1]
        /\ (request.name = "calculateMACD" /\ Len(request.prices) < request.slowPeriod)
              => /\ response.value.dif = [n |-> 0, d |-> 1]
                 /\ response.value.dea = [n |-> 0, d |-> 1]
                 /\ response.value.macd = [n |-> 0, d |-> 1]
        /\ (request.name = "calculateKDJ" /\ Len(request.bars) < request.period)
              => /\ response.value.k = [n |-> 50, d |-> 1]
                 /\ response.value.d = [n |-> 50, d |-> 1]
                 /\ response.value.j = [n |-> 50, d |-> 1]
        /\ (request.name = "calculateBOLL" /\ Len(request.prices) < request.period)
              => \A band \in {"upper", "middle", "lower"} :
                    response.value[band] = [n |-> 0, d |-> 1]

\* exactly period closes, one fewer than RSI needs, and they are rising
C10_Witness ==
    /\ pc = "done"
    /\ request.name = "calculateRSI"
    /\ request.period = 2
    /\ request.prices = <<[n |-> 1, d |-> 1], [n |-> 2, d |-> 1]>>
    /\ response.value = [n |-> 50, d |-> 1]

(***************************************************************************)
(* C11: for every history of at least period + 1 non-negative closes       *)
(* calculateRSI depends only on the last period + 1 closes: it returns     *)
(* what it returns for those closes alone.  Over their period transitions, *)
(* with gains the sum of the rises and losses the sum of the falls, it     *)
(* returns 100 when no transition is negative (a constant window           *)
(* included) and otherwise 100 - 100 / (1 + rs), rs being the average gain *)
(* over the average loss, which is gains / losses; the value differs from  *)
(* the exact 100 - 100 / (1 + gains / losses) by rounding only and lies in *)
(* [0, 100].                                                               *)
(***************************************************************************)
\* the transition that ends at the k-th close of the window (k >= 2)
C11_Change(window, k) == Sub(window[k], window[k - 1])

\* the sum of the rises (sign = 1) or of the falls (sign = -1) of the window
RECURSIVE C11_Total(_, _, _)
C11_Total(window, k, sign) ==
    IF k < 2 THEN Num(0)
    ELSE LET change == C11_Change(window, k)
             part == IF Sign(change.n) = sign THEN Num(Abs(change.n)) ELSE Num(0)
         IN  Add(C11_Total(window, k - 1, sign), Norm(part.n, change.d))

C11_NoFall(window) ==
    \A k \in 2..Len(window) : ~Lt(C11_Change(window, k), Num(0))

\* the distance that six roundings of a value below 100 account for
C11_Tolerance == Norm(100 * 7, Pow(2, MantissaBits))

C11_Close(x, y) ==
    /\ ~Gt(Sub(x, y), C11_Tolerance)
    /\ ~Gt(Sub(y, x), C11_Tolerance)

C11_RSIWindow ==
    (pc = "done" /\ request.name = "calculateRSI"
                 /\ Len(request.prices) >= request.period + 1) =>
        LET period == request.period
            window == SliceLast(request.prices, period + 1)
            gains == C11_Total(window, Len(window), 1)
            losses == C11_Total(window, Len(window), -1)
            rs == FDiv(FDiv(Round(gains), Num(period)),
                       FDiv(Round(losses), Num(period)))
            rsi == response.value
        IN  /\ rsi = calculateRSI(window, period)
            /\ C11_NoFall(window) => rsi = Num(100)
            /\ ~C11_NoFall(window) =>
                  /\ rsi = FSub(Num(100), FDiv(Num(100), FAdd(Num(1), rs)))
                  /\ C11_Close(rsi, Sub(Num(100),
                                        Div(Num(100), Add(Num(1), Div(gains, losses)))))
            /\ ~Lt(rsi, Num(0))
            /\ ~Gt(rsi, Num(100))

\* four closes and period 2: the window is 1, 4, 2, with gains 3 and
\* losses 2, where the whole history has gains 3 and losses 5
C11_Witness ==
    /\ pc = "done"
    /\ request.name = "calculateRSI"
    /\ request.period = 2
    /\ request.prices = <<[n |-> 4, d |-> 1], [n |-> 1, d |-> 1],
                          [n |-> 4, d |-> 1], [n |-> 2, d |-> 1]>>
    /\ response.value = [n |-> 60, d |-> 1]

(***************************************************************************)
(* C12: for every history of at least period closes calculateBOLL depends  *)
(* only on the last period closes: it returns what it returns for those    *)
(* closes alone; middle is their arithmetic mean; the bands are symmetric, *)
(* upper - middle == middle - lower >= 0, so lower <= middle <= upper; and *)
(* when all closes of the window are identical upper, lower and middle all *)
(* equal that close.                                                       *)
(***************************************************************************)
RECURSIVE C12_Total(_)
C12_Total(window) ==
    IF window = <<>> THEN Num(0) ELSE Add(Head(window), C12_Total(Tail(window)))

C12_Flat(window) == \A k \in 1..Len(window) : window[k] = window[1]

C12_BollBands ==
    (pc = "done" /\ request.name = "calculateBOLL"
                 /\ Len(request.prices) >= request.period) =>
        LET period == request.period
            window == SliceLast(request.prices, period)
            boll == response.value
        IN  /\ boll = calculateBOLL(window, period, request.multiplier)
            /\ boll.middle = Round(Div(C12_Total(window), Num(period)))
            /\ FSub(boll.upper, boll.middle) = FSub(boll.middle, boll.lower)
            /\ ~Lt(FSub(boll.upper, boll.middle), Num(0))
            /\ ~Lt(boll.middle, boll.lower) /\ ~Lt(boll.upper, boll.middle)
            /\ C12_Flat(window) =>
                  /\ boll.middle = window[1]
                  /\ boll.upper = window[1]
                  /\ boll.lower = window[1]

(***************************************************************************)
(* C13: the multi-instrument handlers absorb per-code failures.  With N    *)
(* codes of which F fail (the fetch fails, the reply has no quote          *)
(* delimiter, or its payload has fewer than 30 fields) and a limit of at   *)
(* least N - F, get_hot_stocks and get_stock_peers return exactly the      *)
(* N - F codes that did not fail and report a failed count of F, and the   *)
(* response is not an error.                                               *)
(***************************************************************************)
Aggregation ==
    /\ pc = "done"
    /\ request.name \in {"get_hot_stocks", "get_stock_peers"}
    /\ request.name = "get_stock_peers" =>
          upstream.basic.ok /\ HasPayload(upstream.basic.text)

\* the codes of the request, each once
CodesOf(req) ==
    IF req.name = "get_hot_stocks"
    THEN UniqueOf(HotCandidates(TextOr(req.args.market, "all")))
    ELSE UniqueOf(PeerCodesOf(normalizeCode(req.args.symbol)))

\* the limit of the request: the one supplied, or the default of the tool
LimitOf(req) ==
    IF req.args.limit.given THEN req.args.limit.value
    ELSE IF req.name = "get_hot_stocks" THEN 20 ELSE 10

C13_Fails(fetched) ==
    \/ ~fetched.ok
    \/ ~HasPayload(fetched.text)
    \/ Len(TildeFields(fetched.text)) < 30

FailedCodes(req, feed) ==
    {k \in 1..Len(CodesOf(req)) : C13_Fails(ReplyTo(feed, CodesOf(req)[k]))}

ItemCodes(items) == {items[k].code : k \in 1..Len(items)}

C13_PartialFailures ==
    Aggregation =>
        LET codes == CodesOf(request)
            failed == FailedCodes(request, upstream.feed)
        IN  LimitOf(request) >= Len(codes) - Cardinality(failed) =>
               /\ response.isError = FALSE
               /\ "items" \in DOMAIN response
               /\ Len(response.items) = Len(codes) - Cardinality(failed)
               /\ ItemCodes(response.items)
                     = {codes[k] : k \in (1..Len(codes)) \ failed}
               /\ "failedCount" \in DOMAIN response
               /\ response.failedCount = Cardinality(failed)

(***************************************************************************)
(* C14: the number of items get_hot_stocks and get_stock_peers return      *)
(* never exceeds the supplied limit, for every numeric limit, 0 and the    *)
(* negative ones included (for which no item is returned).                 *)
(***************************************************************************)
C14_WithinLimit ==
    (Aggregation /\ request.args.limit.given) =>
        LET limit == request.args.limit.value
        IN  /\ "items" \in DOMAIN response
            /\ Len(response.items) <= (IF limit < 0 THEN 0 ELSE limit)

(***************************************************************************)
(* C15: the items of get_hot_stocks are in descending order of the         *)
(* selected numeric field (change percent, volume or turnover): the key of *)
(* every item is >= the key of the next one, and items of equal keys are   *)
(* in the order of the candidate list.                                     *)
(***************************************************************************)
C15_Key(item, sortBy) ==
    IF sortBy = "change_rate" THEN item.changePercent
    ELSE IF sortBy = "volume" THEN item.volume
    ELSE item.turnover

\* x >= y on numbers: false when either is NaN
C15_Geq(x, y) == ~IsNaN(x) /\ ~IsNaN(y) /\ ~Lt(x, y)

C15_Place(code, market) ==
    LET candidates == UniqueOf(HotCandidates(market))
    IN  CHOOSE k \in 1..Len(candidates) : candidates[k] = code

C15_Descending ==
    (pc = "done" /\ request.name = "get_hot_stocks") =>
        LET sortBy == TextOr(request.args.sort_by, "change_rate")
            market == TextOr(request.args.market, "all")
            items == response.items
        IN  \A k \in 1..(Len(items) - 1) :
               LET this == C15_Key(items[k], sortBy)
                   next == C15_Key(items[k + 1], sortBy)
               IN  /\ C15_Geq(this, next)
                   /\ this = next =>
                         C15_Place(items[k].code, market)
                             < C15_Place(items[k + 1].code, market)

(***************************************************************************)
(* C16: the multi-instrument handlers deduplicate the codes before they    *)
(* fetch: no code is fetched more than once and no code is output more     *)
(* than once, for every market of get_hot_stocks and every target symbol   *)
(* of get_stock_peers, i.e. for every candidate list of the code.          *)
(***************************************************************************)
NoRepeat(arr) == \A i, j \in 1..Len(arr) : arr[i] = arr[j] => i = j

C16_Deduplicated ==
    Aggregation =>
        /\ NoRepeat(fetchLog)
        /\ "items" \in DOMAIN response
        /\ NoRepeat([k \in 1..Len(response.items) |-> response.items[k].code])

(***************************************************************************)
(* C17: the fetch loops run with bounded concurrency and a failed fetch    *)
(* does not stop them.  At most one fetch is in flight at any time,        *)
(* whatever the number of codes; while a loop runs, the codes fetched so   *)
(* far followed by the codes still queued are the whole list, so that no   *)
(* failure removes a code from it; and when the loop is over every code of *)
(* the list has been fetched, unless get_stock_peers stopped because it    *)
(* had collected as many peers as the limit.                               *)
(***************************************************************************)
\* the list the loop of the request runs over
LoopCodes ==
    IF request.name = "get_hot_stocks"
    THEN HotStocksOf(TextOr(request.args.market, "all"),
                     LimitOr(request.args.limit, 20))
    ELSE PeerCodesOf(normalizeCode(request.args.symbol))

C17_BoundedFetches ==
    /\ Len(inFlight) <= 1
    /\ pc \in {"looping", "awaiting"} => fetchLog \o queue = LoopCodes
    /\ (pc = "done" /\ response.kind \in {"hotStocks", "peers"}) =>
          \/ fetchLog = LoopCodes
          \/ /\ request.name = "get_stock_peers"
             /\ Len(response.items) >= LimitOr(request.args.limit, 10)

\* a loop is over in which a fetch failed and a code behind the failed one
\* was fetched and is among the items
C17_Witness ==
    /\ pc = "done"
    /\ response.kind \in {"hotStocks", "peers"}
    /\ \E i, j \in 1..Len(fetchLog) :
          /\ i < j
          /\ ~ReplyTo(upstream.feed, fetchLog[i]).ok
          /\ fetchLog[j] \in ItemCodes(response.items)

(***************************************************************************)
(* C18: the decoding of the K-line bars is all or nothing: when a bar of   *)
(* the fetched array has an open, high, low, close or volume that is not   *)
(* a number, get_stock_technical reports a failure, and no report with     *)
(* indicators comes out of a list that holds an unparsed value.            *)
(***************************************************************************)
\* get_stock_technical has answered, and both replies arrived and decoded
C18_Decoded ==
    /\ pc = "done"
    /\ request.name = "get_stock_technical"
    /\ upstream.basic.ok
    /\ Len(split(upstream.basic.text, <<QUOTE>>)) >= 2
    /\ upstream.kline.ok
    /\ KlineParsed[upstream.kline.text].ok

C18_Bars == KlineParsed[upstream.kline.text].items

C18_Unparsed ==
    \E i \in 1..Len(C18_Bars),
       field \in {"open", "high", "low", "close", "volume"} :
        IsNaN(parseFloat(ToText(C18_Bars[i][field])))

C18_AllOrNothing ==
    (C18_Decoded /\ C18_Unparsed) => response.kind = "technicalFailed"

(***************************************************************************)
(* C19: short history never fails an indicator request: for every number   *)
(* of decoded bars, 0 to 20 included, get_stock_technical returns a report *)
(* with each requested indicator, with the neutral or zero value where the *)
(* history is shorter than the window of the indicator, and never an       *)
(* 'insufficient data' failure.                                            *)
(***************************************************************************)
C19_Requested ==
    {i \in IndicatorNames : includes(IndicatorsOf(request.args), NameText(i))}

\* the replies decoded to an array of bars that are all numbers
C19_History ==
    /\ C18_Decoded
    /\ ~KlineParsed[upstream.kline.text].isNull
    /\ ~C18_Unparsed

C19_Report ==
    /\ response.kind = "technical"
    /\ DOMAIN response.report = C19_Requested
    /\ ("rsi" \in C19_Requested /\ Len(C18_Bars) < 15) =>
          response.report["rsi"].rsi = Num(50)
    /\ ("macd" \in C19_Requested /\ Len(C18_Bars) < 26) =>
          /\ response.report["macd"].dif = Num(0)
          /\ response.report["macd"].dea = Num(0)
          /\ response.report["macd"].macd = Num(0)
    /\ ("kdj" \in C19_Requested /\ Len(C18_Bars) < 9) =>
          /\ response.report["kdj"].k = Num(50)
          /\ response.report["kdj"].d = Num(50)
          /\ response.report["kdj"].j = Num(50)
    /\ ("boll" \in C19_Requested /\ Len(C18_Bars) < 20) =>
          /\ response.report["boll"].upper = Num(0)
          /\ response.report["boll"].middle = Num(0)
          /\ response.report["boll"].lower = Num(0)

C19_NoShortHistoryError == C19_History => C19_Report

(***************************************************************************)
(* C20: every failed tool call is signalled as an error: the CallTool      *)
(* handler returns one response to every call, the response has isError    *)
(* true whenever the operation failed (a name that is no tool, a failed    *)
(* fetch, a payload without the quote), for all ten listed tools alike,    *)
(* and every listed tool has its case in the switch.                       *)
(***************************************************************************)
\* a call of the CallTool handler has returned
C20_Called == pc = "done" /\ request.name \in ListedTools \cup OtherNames

C20_NoQuote(reply) == Len(split(reply.text, <<QUOTE>>)) < 2

\* the operation failed: by its name, by a fetch, or by a missing quote
C20_Failed ==
    \/ request.name \notin ListedTools
    \/ /\ request.name \in {"get_stock_price", "get_stock_fundamentals",
                            "get_trading_depth"}
       /\ (~upstream.ok \/ C20_NoQuote(upstream))
    \/ request.name = "get_market_overview" /\ ~upstream.ok
    \/ /\ request.name \in {"get_stock_news", "get_stock_history",
                            "get_stock_kline", "get_stock_peers",
                            "get_stock_technical"}
       /\ (~upstream.basic.ok \/ C20_NoQuote(upstream.basic))
    \/ /\ request.name = "get_stock_news"
       /\ (~upstream.news.ok \/ C20_NoQuote(upstream.news))
    \/ /\ request.name \in {"get_stock_history", "get_stock_kline",
                            "get_stock_technical"}
       /\ ~upstream.kline.ok

C20_FailuresAreErrors ==
    /\ ListedTools \subseteq DispatcherCases
    /\ C20_Called =>
          /\ "isError" \in DOMAIN response
          /\ C20_Failed => response.isError

(***************************************************************************)
(* C21: the result of get_hot_stocks is the top of the ranking over all    *)
(* candidates of the selected market: for every limit >= 1 every returned  *)
(* item has a sort key greater than or equal to that of every decoded      *)
(* candidate of the market that is not returned.                           *)
(***************************************************************************)
\* the value the comparator of the request reads in a record
SortKeyOf(stock, sortBy) ==
    IF sortBy = "volume" THEN stock.volume
    ELSE IF sortBy = "turnover" THEN stock.turnover
    ELSE stock.changePercent

\* a >= b in JavaScript
Ge(a, b) == ~IsNaN(a) /\ ~IsNaN(b) /\ ~Lt(a, b)

\* every candidate of the market of the request that decodes, each once
C21_Decoded == HotLoop(UniqueOf(HotCandidates(TextOr(request.args.market, "all"))),
                       upstream.feed)

C21_Ranked ==
    /\ pc = "done"
    /\ request.name = "get_hot_stocks"
    /\ LimitOr(request.args.limit, 20) >= 1

C21_TopOfRanking ==
    C21_Ranked =>
        LET sortBy == TextOr(request.args.sort_by, "change_rate")
            items == response.items
        IN  \A i \in 1..Len(items), c \in 1..Len(C21_Decoded) :
               C21_Decoded[c].code \notin ItemCodes(items) =>
                  Ge(SortKeyOf(items[i], sortBy),
                     SortKeyOf(C21_Decoded[c], sortBy))

(***************************************************************************)
(* C22: in calculateKDJ with at least period bars the denominator of RSV,  *)
(* highestHigh - lowestLow over the last period bars, is strictly positive *)
(* whenever the window is not flat and every bar of it has low <= high;    *)
(* when the window is flat the division is made with a zero denominator    *)
(* and no fallback value is returned: k and d are NaN or infinite and j is *)
(* NaN.                                                                    *)
(***************************************************************************)
IsFinite(x) == x.d # 0

C22_Window ==
    /\ pc = "done"
    /\ request.name = "calculateKDJ"
    /\ Len(request.bars) >= request.period

C22_Recent == SliceLast(request.bars, request.period)

C22_HighestHigh == MathMax(Column(C22_Recent, "high"))

C22_LowestLow == MathMin(Column(C22_Recent, "low"))

C22_Flat == C22_HighestHigh = C22_LowestLow

C22_Ordered == \A i \in 1..Len(C22_Recent) : ~Lt(C22_Recent[i].high, C22_Recent[i].low)

C22_Denominator ==
    C22_Window =>
        /\ (~C22_Flat /\ C22_Ordered) => Gt(FSub(C22_HighestHigh, C22_LowestLow), Num(0))
        /\ C22_Flat =>
              /\ FSub(C22_HighestHigh, C22_LowestLow) = Num(0)
              /\ ~IsFinite(response.value.k)
              /\ ~IsFinite(response.value.d)
              /\ IsNaN(response.value.j)

\* the last bar is flat and its close is its low: RSV is 0 / 0
C22_Witness ==
    /\ C22_Window
    /\ request.period = 1
    /\ request.bars = <<[high |-> Num(3), low |-> Num(1), close |-> Num(2)],
                        [high |-> Num(2), low |-> Num(2), close |-> Num(2)]>>
    /\ IsNaN(response.value.k)

(***************************************************************************)
(* C23: with the previous K and D fixed at 50, for every non-flat window   *)
(* of at least period bars whose last close lies between the lowest low    *)
(* and the highest high, k lies in [100/3, 200/3], d in [400/9, 500/9] and *)
(* j in [100/9, 800/9], and the KDJ signal of get_stock_technical is       *)
(* "normal".                                                               *)
(***************************************************************************)
\* a call of calculateKDJ, or a report of get_stock_technical with the
\* KDJ line
C23_Direct == pc = "done" /\ request.name = "calculateKDJ"

C23_Reported ==
    /\ pc = "done"
    /\ request.name = "get_stock_technical"
    /\ response.kind = "technical"
    /\ "kdj" \in DOMAIN response.report

C23_Period == IF C23_Direct THEN request.period ELSE 9

\* the bars the call was made with
C23_Bars ==
    IF C23_Direct THEN request.bars
    ELSE LET klineData == KlineParsed[upstream.kline.text].items
         IN  [i \in 1..Len(klineData) |->
                 [high  |-> FloatColumn(klineData, "high")[i],
                  low   |-> FloatColumn(klineData, "low")[i],
                  close |-> FloatColumn(klineData, "close")[i]]]

C23_Recent == SliceLast(C23_Bars, C23_Period)

C23_HighestHigh == MathMax(Column(C23_Recent, "high"))

C23_LowestLow == MathMin(Column(C23_Recent, "low"))

C23_CurrentClose == C23_Recent[Len(C23_Recent)].close

\* a non-flat window of at least period bars whose last close is within
\* lowestLow..highestHigh
C23_Within ==
    /\ C23_Direct \/ C23_Reported
    /\ Len(C23_Bars) >= C23_Period
    /\ C23_HighestHigh # C23_LowestLow
    /\ Ge(C23_CurrentClose, C23_LowestLow)
    /\ Ge(C23_HighestHigh, C23_CurrentClose)

C23_Values == IF C23_Direct THEN response.value ELSE response.report.kdj

C23_Signal ==
    IF C23_Direct THEN KDJSignal(response.value.j) ELSE response.report.kdj.signal

C23_Between(x, low, high) == Ge(x, low) /\ Ge(high, x)

C23_NarrowBand ==
    C23_Within =>
        /\ C23_Between(C23_Values.k, Norm(100, 3), Norm(200, 3))
        /\ C23_Between(C23_Values.d, Norm(400, 9), Norm(500, 9))
        /\ C23_Between(C23_Values.j, Norm(100, 9), Norm(800, 9))
        /\ C23_Signal = "normal"

\* the same up to the rounding of the arithmetic: with u == 2^-MantissaBits
\* the unit roundoff, k is within 200 u of its band, d within 300 u and j
\* within 1400 u, and the signal is "normal"
C23_Unit == Norm(100, Pow(2, MantissaBits))

C23_Near(x, low, high, times) ==
    C23_Between(x, Sub(low, Mul(Num(times), C23_Unit)),
                Add(high, Mul(Num(times), C23_Unit)))

C23_BandUpToRounding ==
    C23_Within =>
        /\ C23_Near(C23_Values.k, Norm(100, 3), Norm(200, 3), 2)
        /\ C23_Near(C23_Values.d, Norm(400, 9), Norm(500, 9), 3)
        /\ C23_Near(C23_Values.j, Norm(100, 9), Norm(800, 9), 14)
        /\ C23_Signal = "normal"

\* two bars and period 2: the last close is the lowest low, RSV is 0 and
\* k is (2 / 3) * 50 as rounded, below 100 / 3
C23_Witness ==
    /\ C23_Direct
    /\ C23_Within
    /\ request.period = 2
    /\ request.bars = <<[high |-> Num(4), low |-> Num(2), close |-> Num(4)],
                        [high |-> Num(2), low |-> Num(2), close |-> Num(2)]>>
    /\ Lt(response.value.k, Norm(100, 3))
    /\ C23_Signal = "normal"

=============================================================================
